---- MODULE Spec2Model ----
(***************************************************************************)
(* Document-App: the generation client (backend/services/gemini.js) with   *)
(* its retry loop and process-wide circuit breaker; the chunker and the    *)
(* upload, delete and read handlers of controllers/fileController.js; the  *)
(* chat and streaming handlers of controllers/chatController.js.           *)
(*                                                                         *)
(* Node runs one callback at a time: every action below is one synchronous *)
(* stretch of a function between two awaits.                               *)
(***************************************************************************)
EXTENDS Integers, Sequences, FiniteSets, TLC

VARIABLES
  circuitBreaker,   \* gemini.js: the module-level breaker object
  now,              \* Date.now()
  calls,            \* per handler slot: the generateWithGemini call it runs
  reserved,         \* backend requests set aside for the calls begun so far
  overloadStreak,   \* overload failures since the last backend response (capped)
  text,             \* chunkText: its argument
  filename,         \* chunkText: its argument
  chunks,           \* chunkText: the list built so far
  i,                \* chunkText: the loop offset
  chunkPc,          \* chunkText: "idle", "loop" or "done"
  metadata,         \* uploadFile: the metadata calculated from the extracted text
  documents,        \* the Document collection, in order of creation (_id = position)
  users,            \* per owner: stats.documentsUploaded of the User record
  requests,         \* per handler: the file or chat request it serves
  histories,        \* the ChatHistory collection, in order of creation
  overlapped        \* per owner: two of their upload/delete requests ran interleaved

genVars == <<circuitBreaker, now, calls, reserved, overloadStreak>>
chunkVars == <<text, filename, chunks, i, chunkPc, metadata>>
appVars == <<documents, users, requests, histories, overlapped>>
vars == <<circuitBreaker, now, calls, reserved, overloadStreak,
          text, filename, chunks, i, chunkPc, metadata,
          documents, users, requests, histories, overlapped>>

-----------------------------------------------------------------------------
(* Bounds of the model *)

\* concurrent generateWithGemini invocations (request handlers in flight)
NumSlots == 2
\* backend requests the calls of a behaviour may need: a call that passes
\* the entry check reserves its maxRetries
MaxRequests == 6
\* largest options.maxRetries a caller passes
MaxRetriesOpt == 4
\* longest text handed to chunkText, in full chunks
MaxChunks == 3
\* file and chat requests in flight
NumHandlers == 2
\* Documents the uploads of the first owner may create
MaxUploads == 6
\* Documents the uploads of the second owner may create
OtherUploads == 1
\* Documents that may be soft-deleted
MaxDeletes == 1
\* chat and getDocument requests that update Document stats
MaxReads == 1
\* longest text whose words are counted, in characters
MaxWordLen == 4
\* fragments written to the response of one stream
MaxFragments == 2

(* Program constants *)

resetTimeout == 60000
FailureThreshold == 3
DefaultMaxRetries == 3
DefaultBaseDelay == 1000
JitterRange == 1000
MaxDelay == 10000
CHUNK_SIZE == 1200
MAX_DOCUMENTS_PER_USER == 5
wordsPerPage == 300
CharsPerWord == 5

\* lastFailureTime: null
NULL == -1
\* a timestamp in arithmetic: null counts as 0
ToNumber(x) == IF x = NULL THEN 0 ELSE x

Slots == 1..NumSlots

Max(a, b) == IF a >= b THEN a ELSE b
Min(a, b) == IF a <= b THEN a ELSE b

RECURSIVE Pow2(_)
\* Math.pow(2, n) for the non-negative integers the loop passes
Pow2(n) == IF n <= 0 THEN 1 ELSE 2 * Pow2(n - 1)

\* Math.round(x / 1000) for x >= 0
RoundSeconds(x) == (x + 500) \div 1000

-----------------------------------------------------------------------------
(* Strings: a text is a sequence of characters *)

Whitespace == {" ", "\n", "\t"}

RECURSIVE TrimStart(_)
TrimStart(s) ==
  IF s = <<>> THEN <<>>
  ELSE IF Head(s) \in Whitespace THEN TrimStart(Tail(s)) ELSE s

RECURSIVE TrimEnd(_)
TrimEnd(s) ==
  IF s = <<>> THEN <<>>
  ELSE IF s[Len(s)] \in Whitespace THEN TrimEnd(SubSeq(s, 1, Len(s) - 1)) ELSE s

\* String.prototype.trim
Trim(s) == TrimEnd(TrimStart(s))

\* response.text() of the backend: empty, blank, plain, padded
ResponseTexts == { <<>>, <<" ">>, <<" ", "o", "k", "\n">> }

(* An error message is the set of phrases it is made of; a phrase        *)
(* contains itself and the shorter phrases listed for it.                *)
Substrings(p) ==
  IF p = "The model is overloaded" THEN {p, "overloaded"}
  ELSE IF p = "Gemini API quota exceeded" THEN {p, "quota exceeded"}
  ELSE IF p = "Service temporarily unavailable" THEN {p, "temporarily unavailable"}
  ELSE {p}

\* String.prototype.includes on a message
includes(msg, phrase) == \E p \in msg : phrase \in Substrings(p)

\* messages the backend SDK rejects with
BackendErrors ==
  { {"503 Service Unavailable", "The model is overloaded"},
    {"RESOURCE_EXHAUSTED"},
    {"API_KEY_INVALID"},
    {"QUOTA_EXCEEDED"},
    {"fetch failed"} }

EmptyResponseMsg == {"Empty response from Gemini"}
CircuitOpenMsg == {"Service temporarily unavailable", "Circuit breaker is open"}
InvalidKeyMsg == {"Invalid Gemini API key"}
QuotaMsg == {"Gemini API quota exceeded"}
\* `AI generation failed after N attempt(s): ${error.message}`
WrapFailed(msg) == {"AI generation failed after"} \cup msg

\* Math.random() * 1000, sampled at both ends of [0, 1000)
Jitters == {0, JitterRange - 1}

\* the options callers pass (0: not given): testAI passes neither; the
\* others exercise a single attempt, more than three, and the delay cap
CallOptions ==
  { [maxRetries |-> 0, baseDelay |-> 0],
    [maxRetries |-> 1, baseDelay |-> 1500],
    [maxRetries |-> MaxRetriesOpt, baseDelay |-> 5000] }

\* x || d
OrDefault(x, d) == IF x = 0 THEN d ELSE x

-----------------------------------------------------------------------------
(* State *)

NoResult == [kind |-> "none", attempts |-> 0, msg |-> {}, response |-> <<>>, retryAfter |-> 0]

\* what the backend last did to a call's request: nothing yet, a response
\* text, or an error message
NothingYet == [type |-> "none", text |-> <<>>, msg |-> {}]
GotText(t) == [type |-> "text", text |-> t, msg |-> {}]
GotError(m) == [type |-> "error", text |-> <<>>, msg |-> m]

\* pc: idle, inflight (awaiting the backend), sleeping (awaiting the backoff
\* timer), returned, thrown, fellthrough (the loop ended without either).
\* issued, waits, probe and got observe the call; the rest are its locals.
IdleCall ==
  [ pc |-> "idle", attempt |-> 0, maxRetries |-> 0, baseDelay |-> 0,
    wakeAt |-> 0, delay |-> 0, issued |-> 0, waits |-> 0, probe |-> FALSE,
    got |-> NothingYet, result |-> NoResult ]

InitGen ==
  /\ circuitBreaker = [failureCount |-> 0, lastFailureTime |-> NULL, isOpen |-> FALSE]
  /\ now = 0
  /\ calls = [c \in Slots |-> IdleCall]
  /\ reserved = 0
  /\ overloadStreak = 0

\* the metadata of an upload before line 113 has run
NoMetadata == [calculated |-> FALSE, wordCount |-> 0]

InitChunkIdle ==
  /\ text = <<>>
  /\ filename = "unknown"
  /\ chunks = <<>>
  /\ i = 0
  /\ chunkPc = "idle"
  /\ metadata = NoMetadata

-----------------------------------------------------------------------------
(* Files, documents and requests *)

Owners == {"u1", "u2"}
Handlers == 1..NumHandlers

\* A stored text is known by the file it was extracted from and the
\* character offsets [from, to) of that file's text it covers.
TextOf(name, n) == [name |-> name, from |-> 0, to |-> n]
NoText == TextOf("", 0)
Length(t) == t.to - t.from

\* String.prototype.substring(a, b) for 0 <= a <= b
Substring(t, a, b) ==
  [t EXCEPT !.from = t.from + Min(a, Length(t)), !.to = t.from + Min(b, Length(t))]

\* 10 * 1024 * 1024
MaxFileSize == 10 * 1024 * 1024

\* req.file of the uploads: accepted (exactly at the ceiling), of a type
\* not allowed, too large, both; length is that of the text extraction
\* yields
Files ==
  { [originalname |-> "notes.txt", mimetype |-> "text/plain",
     size |-> MaxFileSize, length |-> 1300],
    [originalname |-> "photo.png", mimetype |-> "image/png", size |-> 2048, length |-> 0],
    [originalname |-> "big.txt", mimetype |-> "text/plain",
     size |-> MaxFileSize + 1, length |-> 0],
    [originalname |-> "big.png", mimetype |-> "image/png",
     size |-> MaxFileSize + 1, length |-> 0] }

\* the files of the chats: the first owner's has five chunks, the second
\* owner's one
ChatFiles(userId) ==
  IF userId = "u1"
  THEN { [originalname |-> "report.pdf", mimetype |-> "application/pdf",
          size |-> 4096, length |-> 5000] }
  ELSE { [originalname |-> "theirs.txt", mimetype |-> "text/plain",
          size |-> 700, length |-> 700] }

NoFile == [originalname |-> "", mimetype |-> "", size |-> 0, length |-> 0]

\* res.status(...).json(...): what the handler answered
NoResponse ==
  [ status |-> 0, error |-> "", code |-> "", retryAfter |-> 0, limit |-> 0, current |-> 0,
    id |-> 0, chunks |-> 0, sourceDocuments |-> <<>> ]

\* a prompt: the instruction, one labelled section per document, the question
NoPrompt == [preamble |-> "", sections |-> <<>>, separator |-> "", question |-> ""]

\* kind: upload, delete, get, chat, stream.  pc: idle, the await the handler
\* is suspended at, or done.  extracted, created, issued (the calls of the
\* generation client) and thrown (the message that client threw with)
\* observe the request; events are what a stream has written after the
\* head; the rest are the handler's arguments and locals.
IdleRequest ==
  [ kind |-> "none", pc |-> "idle", user |-> "", file |-> NoFile, id |-> 0,
    ids |-> <<>>, type |-> "", question |-> "", documentCount |-> 0,
    chunks |-> <<>>, docs |-> <<>>, prompt |-> NoPrompt, fullResponse |-> <<>>,
    extracted |-> FALSE, created |-> 0, issued |-> 0, thrown |-> {},
    events |-> <<>>, res |-> NoResponse ]

InitAppIdle ==
  /\ documents = <<>>
  /\ users = [u \in Owners |-> 0]
  /\ requests = [r \in Handlers |-> IdleRequest]
  /\ histories = <<>>
  /\ overlapped = [u \in Owners |-> FALSE]

Init == InitGen /\ InitChunkIdle /\ InitAppIdle

-----------------------------------------------------------------------------
(* generateWithGemini, piece by piece *)

\* faulty variants of FailsFast: the boundary included; the comparison turned round
FailsFast_Inclusive(cb, t) ==
  cb.isOpen /\ t - ToNumber(cb.lastFailureTime) <= resetTimeout
FailsFast_Inverted(cb, t) ==
  cb.isOpen /\ t - ToNumber(cb.lastFailureTime) > resetTimeout

\* line 77: the open breaker rejects the call
FailsFast(cb, t) ==
  cb.isOpen /\ t - ToNumber(cb.lastFailureTime) < resetTimeout

\* faulty variant of CloseOnEntry: a half-open breaker that keeps its count
CloseOnEntry_KeepCount(cb) ==
  IF cb.isOpen THEN [cb EXCEPT !.isOpen = FALSE] ELSE cb

\* lines 75-85: the breaker after the entry check of a call that goes on
CloseOnEntry(cb) ==
  IF cb.isOpen THEN [cb EXCEPT !.isOpen = FALSE, !.failureCount = 0] ELSE cb

\* line 78: seconds left, in the error message
RetryAfter(cb, t) == RoundSeconds(resetTimeout - (t - ToNumber(cb.lastFailureTime)))

\* faulty variant of LoopContinues: one round short
LoopContinues_Strict(attempt, maxRetries) == attempt < maxRetries

\* line 90: the loop condition
LoopContinues(attempt, maxRetries) == attempt <= maxRetries

\* faulty variants of ResetOnSuccess: the count alone; only an open breaker
ResetOnSuccess_CountOnly(cb) ==
  IF cb.failureCount > 0 THEN [cb EXCEPT !.failureCount = 0] ELSE cb
ResetOnSuccess_OnlyWhenOpen(cb) ==
  IF cb.isOpen THEN [cb EXCEPT !.failureCount = 0, !.isOpen = FALSE] ELSE cb

\* lines 122-127
ResetOnSuccess(cb) ==
  IF cb.failureCount > 0 THEN [cb EXCEPT !.failureCount = 0, !.isOpen = FALSE] ELSE cb

\* line 129
IsEmptyText(txt) == txt = <<>> \/ Len(Trim(txt)) = 0

\* faulty variant of IsInvalidKey: the phrase testGeminiConnection looks for
IsInvalidKey_OtherPhrase(msg) == includes(msg, "API key not valid")

\* lines 145, 149
IsInvalidKey(msg) == includes(msg, "API_KEY_INVALID")
IsQuotaExceeded(msg) == includes(msg, "QUOTA_EXCEEDED")

\* lines 154-162
isRetryableError(msg) ==
  \/ includes(msg, "503 Service Unavailable")
  \/ includes(msg, "The model is overloaded")
  \/ includes(msg, "RATE_LIMIT_EXCEEDED")
  \/ includes(msg, "RESOURCE_EXHAUSTED")
  \/ includes(msg, "INTERNAL")
  \/ includes(msg, "UNAVAILABLE")
  \/ includes(msg, "DEADLINE_EXCEEDED")
  \/ includes(msg, "temporarily unavailable")

\* line 165
IsOverloadError(msg) ==
  includes(msg, "503 Service Unavailable") \/ includes(msg, "The model is overloaded")

\* faulty variant of RecordOverload: opens one failure late
RecordOverload_Late(cb, t) ==
  LET n == cb.failureCount + 1
  IN [ failureCount |-> n, lastFailureTime |-> t,
       isOpen |-> IF n > FailureThreshold THEN TRUE ELSE cb.isOpen ]

\* lines 166-173
RecordOverload(cb, t) ==
  LET n == cb.failureCount + 1
  IN [ failureCount |-> n, lastFailureTime |-> t,
       isOpen |-> IF n >= FailureThreshold THEN TRUE ELSE cb.isOpen ]

\* line 176
ShouldRetry(msg, attempt, maxRetries) == isRetryableError(msg) /\ attempt < maxRetries

\* faulty variant of TotalDelay: the exponent one too high
TotalDelay_Doubled(baseDelay, attempt, jitter) ==
  Min(baseDelay * Pow2(attempt) + jitter, MaxDelay)

\* lines 177-179
TotalDelay(baseDelay, attempt, jitter) ==
  Min(baseDelay * Pow2(attempt - 1) + jitter, MaxDelay)

\* the call is over: its locals are gone, its outcome is what the caller sees
Settle(call, pc, result) ==
  [IdleCall EXCEPT !.pc = pc, !.result = result, !.issued = call.issued,
                   !.waits = call.waits, !.probe = call.probe, !.got = call.got]

Throw(call, kind, attempts, msg, retryAfter) ==
  Settle(call, "thrown", [kind |-> kind, attempts |-> attempts, msg |-> msg,
                          response |-> <<>>, retryAfter |-> retryAfter])

\* lines 133-139
Return(call, txt) ==
  Settle(call, "returned", [kind |-> "ok", attempts |-> call.attempt, msg |-> {},
                            response |-> Trim(txt), retryAfter |-> 0])

\* lines 90-112: the loop head, then the request of this attempt
Attempt(call, attempt) ==
  IF LoopContinues(attempt, call.maxRetries)
  THEN [call EXCEPT !.pc = "inflight", !.attempt = attempt, !.issued = @ + 1,
                    !.delay = 0, !.wakeAt = 0, !.got = NothingYet,
                    !.probe = call.probe /\ attempt = 1]
  ELSE Settle(call, "fellthrough", NoResult)

\* lines 141-192: the catch block, at time t, with the breaker as the try left it
Catch(call, cb, msg, jitter, t) ==
  IF IsInvalidKey(msg)
  THEN [call |-> Throw(call, "InvalidKey", call.attempt, InvalidKeyMsg, 0), cb |-> cb]
  ELSE IF IsQuotaExceeded(msg)
  THEN [call |-> Throw(call, "QuotaExceeded", call.attempt, QuotaMsg, 0), cb |-> cb]
  ELSE
    LET cb2 == IF IsOverloadError(msg) THEN RecordOverload(cb, t) ELSE cb
    IN IF ShouldRetry(msg, call.attempt, call.maxRetries)
       THEN LET d == TotalDelay(call.baseDelay, call.attempt, jitter)
            IN [call |-> [call EXCEPT !.pc = "sleeping", !.delay = d,
                                      !.wakeAt = t + d, !.waits = @ + 1],
                cb |-> cb2]
       ELSE [call |-> Throw(call, "GenerationFailed", call.attempt, WrapFailed(msg), 0),
             cb |-> cb2]

-----------------------------------------------------------------------------
(* Actions *)

\* an overload-class failure, as the backend reports it
IsOverloadMsg(msg) ==
  "503 Service Unavailable" \in msg \/ "The model is overloaded" \in msg

Active(c) == calls[c].pc \in {"inflight", "sleeping"}

Settled(c) == calls[c].pc \in {"returned", "thrown", "fellthrough"}

\* The promise of a call that returned or threw is settled: its awaiting
\* caller runs as a microtask, before any timer or network callback.
NoMicrotask == \A c \in Slots : ~Settled(c)

\* a new invocation runs in the lowest slot that holds no running call
Free(c) == calls[c].pc = "idle" /\ \A d \in Slots : d < c => Active(d)

\* setTimeout fires no earlier than asked: here at the next multiple of
\* MaxDelay, which keeps the clock on a coarse grid
TimerFires(t) == ((t + MaxDelay - 1) \div MaxDelay) * MaxDelay

\* lines 73-112: a handler calls generateWithGemini(prompt, options)
Begin(c, o) ==
  /\ NoMicrotask
  /\ Free(c)
  /\ LET fresh == [IdleCall EXCEPT !.maxRetries = OrDefault(o.maxRetries, DefaultMaxRetries),
                                   !.baseDelay = OrDefault(o.baseDelay, DefaultBaseDelay),
                                   !.probe = circuitBreaker.isOpen]
     IN IF FailsFast(circuitBreaker, now)
        THEN /\ calls' = [calls EXCEPT ![c] =
                            Throw(fresh, "CircuitOpen", 0, CircuitOpenMsg,
                                  RetryAfter(circuitBreaker, now))]
             /\ UNCHANGED <<circuitBreaker, reserved>>
        ELSE /\ reserved + fresh.maxRetries <= MaxRequests
             /\ reserved' = reserved + fresh.maxRetries
             /\ circuitBreaker' = CloseOnEntry(circuitBreaker)
             /\ calls' = [calls EXCEPT ![c] = Attempt(fresh, 1)]
  /\ UNCHANGED <<now, overloadStreak>>
  /\ UNCHANGED <<chunkVars, appVars>>

\* lines 114-139: the backend answers the request in flight
Respond(c, txt) ==
  /\ NoMicrotask
  /\ calls[c].pc = "inflight"
  /\ overloadStreak' = 0
  /\ LET cb1 == ResetOnSuccess(circuitBreaker)
         call == [calls[c] EXCEPT !.got = GotText(txt)]
     IN IF IsEmptyText(txt)
        THEN LET r == Catch(call, cb1, EmptyResponseMsg, 0, now)
             IN /\ calls' = [calls EXCEPT ![c] = r.call]
                /\ circuitBreaker' = r.cb
        ELSE /\ circuitBreaker' = cb1
             /\ calls' = [calls EXCEPT ![c] = Return(call, txt)]
  /\ UNCHANGED <<now, reserved>>
  /\ UNCHANGED <<chunkVars, appVars>>

\* lines 141-192: the request in flight is rejected
\* the jitter is drawn only where line 178 runs
JittersFor(call, msg) ==
  IF ~IsInvalidKey(msg) /\ ~IsQuotaExceeded(msg) /\ ShouldRetry(msg, call.attempt, call.maxRetries)
  THEN Jitters ELSE {0}

Fail(c, msg, jitter) ==
  /\ NoMicrotask
  /\ calls[c].pc = "inflight"
  /\ LET r == Catch([calls[c] EXCEPT !.got = GotError(msg)], circuitBreaker, msg, jitter, now)
     IN /\ calls' = [calls EXCEPT ![c] = r.call]
        /\ circuitBreaker' = r.cb
  /\ overloadStreak' = IF IsOverloadMsg(msg)
                       THEN Min(overloadStreak + 1, FailureThreshold)
                       ELSE overloadStreak
  /\ UNCHANGED <<now, reserved>>
  /\ UNCHANGED <<chunkVars, appVars>>

\* lines 182-183, 90-112: the backoff timer fires, the loop goes round
Wake(c) ==
  /\ NoMicrotask
  /\ calls[c].pc = "sleeping"
  /\ now' = TimerFires(Max(now, calls[c].wakeAt))
  /\ calls' = [calls EXCEPT ![c] = Attempt(@, @.attempt + 1)]
  /\ UNCHANGED <<circuitBreaker, reserved, overloadStreak>>
  /\ UNCHANGED <<chunkVars, appVars>>

\* the awaiting caller takes the outcome; the handler slot is free again
Finish(c) ==
  /\ Settled(c)
  /\ calls' = [calls EXCEPT ![c] = IdleCall]
  /\ UNCHANGED <<circuitBreaker, now, reserved, overloadStreak>>
  /\ UNCHANGED <<chunkVars, appVars>>

\* instants worth looking at: just before and at the end of the open period
\* (line 76 is the only place that reads elapsed time, and only when open)
TickTargets ==
  IF ~circuitBreaker.isOpen THEN {}
  ELSE { t \in { circuitBreaker.lastFailureTime + resetTimeout - 1,
                 circuitBreaker.lastFailureTime + resetTimeout } : t > now }

\* Date.now() moves on
Tick ==
  /\ NoMicrotask
  /\ \E t \in TickTargets : now' = t
  /\ UNCHANGED <<circuitBreaker, calls, reserved, overloadStreak>>
  /\ UNCHANGED <<chunkVars, appVars>>

Next ==
  \/ \E c \in Slots, o \in CallOptions : Begin(c, o)
  \/ \E c \in Slots, txt \in ResponseTexts : Respond(c, txt)
  \/ \E c \in Slots, msg \in BackendErrors :
       \E j \in JittersFor(calls[c], msg) : Fail(c, msg, j)
  \/ \E c \in Slots : Wake(c)
  \/ \E c \in Slots : Finish(c)
  \/ Tick

Spec == Init /\ [][Next]_vars

-----------------------------------------------------------------------------
(* chunkText (controllers/fileController.js) *)

\* text.slice(a, b) for 0 <= a <= b <= text.length
Slice(s, a, b) == SubSeq(s, a + 1, b)

\* faulty variant of ChunkEnd: windows of half the size
ChunkEnd_Half(pos, len) == Min(pos + (CHUNK_SIZE \div 2), len)

\* line 19
ChunkEnd(pos, len) == Min(pos + CHUNK_SIZE, len)

\* lines 23-24
CurrentPage(pos) == ((pos \div CharsPerWord) \div wordsPerPage) + 1

\* lines 26-34
MakeChunk(s, name, pos, end) ==
  [ text |-> Slice(s, pos, end),
    source |-> [filename |-> name, page |-> CurrentPage(pos), start |-> pos, end |-> end] ]

\* faulty variant of NextOffset: skips a character between chunks
NextOffset_Skip(pos, end) == end + 1

\* line 35
NextOffset(pos, end) == end

\* the characters of the sample texts, words and line breaks among them
Alphabet == <<"a", "b", " ", "c", "\n", "d", "e">>

\* a text of n characters; the period of the pattern does not divide CHUNK_SIZE
SampleText(n, seed) == [k \in 1..n |-> Alphabet[((k + seed) % Len(Alphabet)) + 1]]

\* lengths around the chunk boundaries, up to MaxChunks full chunks
TextLengths ==
  { m * CHUNK_SIZE + d : m \in 0..(MaxChunks - 1), d \in {0, 1, 2, 600, CHUNK_SIZE - 1} }
  \cup { MaxChunks * CHUNK_SIZE }

InitChunk ==
  /\ InitGen
  /\ InitAppIdle
  /\ text \in { SampleText(n, seed) : n \in TextLengths, seed \in {0, 3} }
  /\ filename \in {"unknown", "notes.txt"}
  /\ chunks = <<>>
  /\ i = 0
  /\ chunkPc = "idle"
  /\ metadata = NoMetadata

\* lines 12-16
ChunkCall ==
  /\ chunkPc = "idle"
  /\ chunkPc' = "loop"
  /\ chunks' = <<>>
  /\ i' = 0
  /\ UNCHANGED <<text, filename, metadata>>
  /\ UNCHANGED <<genVars, appVars>>

\* lines 18-36: one round of the loop
ChunkLoop ==
  /\ chunkPc = "loop"
  /\ i < Len(text)
  /\ LET end == ChunkEnd(i, Len(text))
     IN /\ chunks' = Append(chunks, MakeChunk(text, filename, i, end))
        /\ i' = NextOffset(i, end)
  /\ UNCHANGED <<text, filename, chunkPc, metadata>>
  /\ UNCHANGED <<genVars, appVars>>

\* lines 18, 37: the loop ends, the list is returned
ChunkReturn ==
  /\ chunkPc = "loop"
  /\ ~(i < Len(text))
  /\ chunkPc' = "done"
  /\ UNCHANGED <<text, filename, chunks, i, metadata>>
  /\ UNCHANGED <<genVars, appVars>>

NextChunk == ChunkCall \/ ChunkLoop \/ ChunkReturn

SpecChunk == InitChunk /\ [][NextChunk]_vars

\* chunkText is synchronous code: once called it runs to its return
FairSpecChunk == SpecChunk /\ WF_vars(NextChunk)

-----------------------------------------------------------------------------
(* uploadFile (controllers/fileController.js): the word count of line 113 *)

RECURSIVE SplitFrom(_, _)
\* the pieces of piece \o rest, piece being the beginning of the first one
SplitFrom(rest, piece) ==
  IF rest = <<>> THEN <<piece>>
  ELSE IF Head(rest) \in Whitespace
  THEN <<piece>> \o SplitFrom(TrimStart(rest), <<>>)
  ELSE SplitFrom(Tail(rest), Append(piece, Head(rest)))

\* text.split(/\s+/): what lies before, between and after the runs of
\* whitespace, the empty pieces at either end included
SplitWhitespace(s) == SplitFrom(s, <<>>)

\* faulty variant of WordCount: the text is trimmed first
WordCount_Trimmed(s) ==
  IF Trim(s) = <<>> THEN 0 ELSE Len(SplitWhitespace(Trim(s)))

\* line 113: text ? text.split(/\s+/).length : 0
WordCount(s) == IF s = <<>> THEN 0 ELSE Len(SplitWhitespace(s))

\* the characters of the texts whose words are counted
WordAlphabet == {"a", " ", "\n"}

\* every text of up to MaxWordLen characters
WordTexts ==
  UNION { [1..n -> WordAlphabet] : n \in 0..MaxWordLen }

InitWords ==
  /\ InitGen
  /\ InitAppIdle
  /\ text \in WordTexts
  /\ filename = "unknown"
  /\ chunks = <<>>
  /\ i = 0
  /\ chunkPc = "idle"
  /\ metadata = NoMetadata

\* lines 112-113: the metadata of the extracted text
CountWords ==
  /\ ~metadata.calculated
  /\ metadata' = [calculated |-> TRUE, wordCount |-> WordCount(text)]
  /\ UNCHANGED <<text, filename, chunks, i, chunkPc>>
  /\ UNCHANGED <<genVars, appVars>>

NextWords == CountWords

SpecWords == InitWords /\ [][NextWords]_vars

-----------------------------------------------------------------------------
(* fileController.js: uploadFile and deleteFile, one action per stretch of  *)
(* the handler between two awaits.  The awaited operations that may fail    *)
(* here are extraction, the Document write and the counter update of an     *)
(* upload; the reads of the store and the steps of a delete succeed.        *)

\* lines 76-81
allowedMime ==
  { "application/pdf", "application/msword",
    "application/vnd.openxmlformats-officedocument.wordprocessingml.document",
    "text/plain" }

\* routes/files.js lines 30-41: multer's filter, on the router that has one
fileFilter(file) ==
  file.mimetype \in
    { "application/pdf", "application/msword",
      "application/vnd.openxmlformats-officedocument.wordprocessingml.document",
      "text/plain" }

\* routes/files.js line 46: limits.fileSize
MulterFileSize == 10 * 1024 * 1024

Reply(status, error) == [NoResponse EXCEPT !.status = status, !.error = error]

\* faulty variant of Validate: the size ceiling before the MIME allow-list
Validate_SizeFirst(file) ==
  IF file.size > MaxFileSize THEN Reply(413, "File too large (max 10MB)")
  ELSE IF file.mimetype \notin allowedMime THEN Reply(400, "Unsupported file type")
  ELSE NoResponse

\* lines 75-89: the first check that fails, or no response yet
Validate(file) ==
  IF file.mimetype \notin allowedMime THEN Reply(400, "Unsupported file type")
  ELSE IF file.size > MaxFileSize THEN Reply(413, "File too large (max 10MB)")
  ELSE NoResponse

\* faulty variants of LimitReached: one document too many; no limit
LimitReached_Above(documentCount) == documentCount > MAX_DOCUMENTS_PER_USER
LimitReached_Never(documentCount) == FALSE

\* line 99
LimitReached(documentCount) == documentCount >= MAX_DOCUMENTS_PER_USER

\* lines 101-105
LimitReply(documentCount) ==
  [Reply(400, "Document limit reached") EXCEPT
     !.limit = MAX_DOCUMENTS_PER_USER, !.current = documentCount]

\* line 96: Document.countDocuments({ userId, isActive: true })
countDocuments(userId) ==
  Cardinality({ k \in DOMAIN documents :
                  documents[k].userId = userId /\ documents[k].isActive })

\* line 109: the text extractText resolves with
extractText(file) == TextOf(file.originalname, file.length)

RECURSIVE ChunkFrom(_, _, _)
\* lines 18-36 on a stored text: the chunks from offset pos on
ChunkFrom(t, name, pos) ==
  IF pos < Length(t)
  THEN LET end == ChunkEnd(pos, Length(t))
       IN << [ text |-> Substring(t, pos, end),
               source |-> [filename |-> name, page |-> CurrentPage(pos),
                           start |-> pos, end |-> end] ] >>
          \o ChunkFrom(t, name, NextOffset(pos, end))
  ELSE <<>>

\* lines 12-38
chunkText(t, name) == ChunkFrom(t, name, 0)

\* faulty variant of NewDocument: the last chunk is lost
NewDocument_Partial(req, id) ==
  [ id |-> id, userId |-> req.user, originalName |-> req.file.originalname,
    mimeType |-> req.file.mimetype, size |-> req.file.size,
    chunks |-> SubSeq(req.chunks, 1, Len(req.chunks) - 1),
    stats |-> [views |-> 0, chats |-> 0], isActive |-> TRUE ]

\* lines 118-131, with the defaults of models/Document.js
NewDocument(req, id) ==
  [ id |-> id, userId |-> req.user, originalName |-> req.file.originalname,
    mimeType |-> req.file.mimetype, size |-> req.file.size,
    chunks |-> req.chunks,
    stats |-> [views |-> 0, chats |-> 0], isActive |-> TRUE ]

\* lines 143-150
UploadReply(doc) ==
  [NoResponse EXCEPT !.status = 200, !.id = doc.id, !.chunks = Len(doc.chunks)]

\* lines 135-138, 151-153: User.findByIdAndUpdate rejects, the catch answers
CounterFailure(doc) == Reply(500, "e.message")

\* the handler has answered: its locals are gone
Done(req, res) ==
  [req EXCEPT !.pc = "done", !.chunks = <<>>, !.documentCount = 0,
              !.fullResponse = <<>>, !.res = res]

Busy(r) == requests[r].pc # "idle"

\* the response is written in the stretch that ends the handler: nothing
\* else runs before the handler is gone
NoReply == \A r \in Handlers : requests[r].pc # "done"

\* a new request is served by the lowest handler that is idle
FreeHandler(r) == ~Busy(r) /\ \A q \in Handlers : q < r => Busy(q)

DocsOf(userId) == { k \in DOMAIN documents : documents[k].userId = userId }

\* uploads of an owner that may still create their Document
Uploading(userId) ==
  { r \in Handlers : /\ requests[r].kind = "upload"
                     /\ requests[r].user = userId
                     /\ requests[r].pc \in {"counting", "extracting", "creating"} }

UploadBudget(userId) == IF userId = "u1" THEN MaxUploads ELSE OtherUploads

\* the uploads the bounds leave room for: those that create nothing are free
CanUpload(userId, file) ==
  \/ Validate(file) # NoResponse
  \/ LimitReached(countDocuments(userId))
  \/ Cardinality(DocsOf(userId)) + Cardinality(Uploading(userId)) < UploadBudget(userId)

\* findOne({ _id, userId, isActive: true }): the position of the match, or 0
findOne(id, userId) ==
  IF /\ id \in DOMAIN documents
     /\ documents[id].userId = userId
     /\ documents[id].isActive
  THEN id ELSE 0

Deleting ==
  { r \in Handlers : requests[r].kind = "delete" /\ requests[r].pc \in {"finding", "deleting"} }

\* the deletes the bounds leave room for: those of a Document that is not
\* there, or that is being deleted already, are free
CanDelete(userId, id) ==
  \/ findOne(id, userId) = 0
  \/ \E q \in Deleting : requests[q].id = id
  \/ Cardinality({ k \in DOMAIN documents : ~documents[k].isActive })
       + Cardinality({ requests[q].id : q \in Deleting }) < MaxDeletes

\* another upload or delete of the same owner is in flight
Overlaps(userId) ==
  \E q \in Handlers : /\ Busy(q)
                      /\ requests[q].kind \in {"upload", "delete"}
                      /\ requests[q].user = userId

\* lines 56-96, behind multer on the router: the synchronous checks
UploadBegin(r, userId, file, filtered) ==
  /\ NoReply
  /\ FreeHandler(r)
  /\ CanUpload(userId, file)
  /\ LET req == [IdleRequest EXCEPT !.kind = "upload", !.user = userId, !.file = file]
     IN requests' = [requests EXCEPT ![r] =
          IF filtered /\ ~fileFilter(file)
          THEN Done(req, Reply(500, "Unsupported file type"))
          ELSE IF filtered /\ file.size > MulterFileSize
          THEN Done(req, Reply(500, "File too large"))
          ELSE IF Validate(file) # NoResponse
          THEN Done(req, Validate(file))
          ELSE [req EXCEPT !.pc = "counting"]]
  /\ overlapped' = [overlapped EXCEPT ![userId] = @ \/ Overlaps(userId)]
  /\ UNCHANGED <<documents, users>>
  /\ UNCHANGED <<genVars, chunkVars, histories>>

\* lines 96-109: the count arrives; the limit check; extraction starts
\* (documentCount is read again only for the message of line 149)
UploadCount(r) ==
  /\ NoReply
  /\ requests[r].kind = "upload" /\ requests[r].pc = "counting"
  /\ LET req == requests[r]
         documentCount == countDocuments(req.user)
     IN requests' = [requests EXCEPT ![r] =
          IF LimitReached(documentCount) THEN Done(req, LimitReply(documentCount))
          ELSE [req EXCEPT !.pc = "extracting"]]
  /\ UNCHANGED <<documents, users, overlapped>>
  /\ UNCHANGED <<genVars, chunkVars, histories>>

\* lines 109-131: the text arrives (or extraction throws); chunking; the
\* Document write starts
UploadExtract(r, ok) ==
  /\ NoReply
  /\ requests[r].kind = "upload" /\ requests[r].pc = "extracting"
  /\ LET req == requests[r]
     IN requests' = [requests EXCEPT ![r] =
          IF ~ok THEN Done(req, Reply(500, "e.message"))
          ELSE [req EXCEPT !.pc = "creating", !.extracted = TRUE,
                           !.chunks = chunkText(extractText(req.file), req.file.originalname)]]
  /\ UNCHANGED <<documents, users, overlapped>>
  /\ UNCHANGED <<genVars, chunkVars, histories>>

\* lines 118-139: the Document is written (or the write fails); the counter
\* update starts
UploadCreate(r, ok) ==
  /\ NoReply
  /\ requests[r].kind = "upload" /\ requests[r].pc = "creating"
  /\ LET req == requests[r]
         id == Len(documents) + 1
     IN IF ~ok
        THEN /\ requests' = [requests EXCEPT ![r] = Done(req, Reply(500, "e.message"))]
             /\ UNCHANGED documents
        ELSE /\ documents' = Append(documents, NewDocument(req, id))
             /\ requests' = [requests EXCEPT ![r] =
                               [req EXCEPT !.pc = "updating", !.created = id, !.chunks = <<>>]]
  /\ UNCHANGED <<users, overlapped>>
  /\ UNCHANGED <<genVars, chunkVars, histories>>

\* lines 135-153: the counter update is done (or fails); the answer
UploadUpdate(r, ok) ==
  /\ NoReply
  /\ requests[r].kind = "upload" /\ requests[r].pc = "updating"
  /\ LET req == requests[r]
         doc == documents[req.created]
     IN IF ~ok
        THEN /\ requests' = [requests EXCEPT ![r] = Done(req, CounterFailure(doc))]
             /\ UNCHANGED users
        ELSE /\ users' = [users EXCEPT ![req.user] = @ + 1]
             /\ requests' = [requests EXCEPT ![r] = Done(req, UploadReply(doc))]
  /\ UNCHANGED <<documents, overlapped>>
  /\ UNCHANGED <<genVars, chunkVars, histories>>

\* lines 195-204
DeleteBegin(r, userId, id) ==
  /\ NoReply
  /\ FreeHandler(r)
  /\ CanDelete(userId, id)
  /\ requests' = [requests EXCEPT ![r] =
       [IdleRequest EXCEPT !.kind = "delete", !.pc = "finding", !.user = userId, !.id = id]]
  /\ overlapped' = [overlapped EXCEPT ![userId] = @ \/ Overlaps(userId)]
  /\ UNCHANGED <<documents, users>>
  /\ UNCHANGED <<genVars, chunkVars, histories>>

\* lines 200-214: the lookup arrives; the soft delete starts
DeleteFind(r) ==
  /\ NoReply
  /\ requests[r].kind = "delete" /\ requests[r].pc = "finding"
  /\ LET req == requests[r]
     IN requests' = [requests EXCEPT ![r] =
          IF findOne(req.id, req.user) = 0 THEN Done(req, Reply(404, "Document not found"))
          ELSE [req EXCEPT !.pc = "deleting"]]
  /\ UNCHANGED <<documents, users, overlapped>>
  /\ UNCHANGED <<genVars, chunkVars, histories>>

\* lines 217-220: ChatHistory.updateMany({ documentId }, { isActive: false })
Cascade(hs, documentId) ==
  [k \in DOMAIN hs |->
     IF hs[k].documentId = documentId THEN [hs[k] EXCEPT !.isActive = FALSE] ELSE hs[k]]

\* lines 211-217: Document.findByIdAndUpdate(documentId, { isActive: false })
\* is done; the update of the chat histories starts
DeleteSoft(r) ==
  /\ NoReply
  /\ requests[r].kind = "delete" /\ requests[r].pc = "deleting"
  /\ LET req == requests[r]
     IN /\ documents' = [documents EXCEPT ![req.id].isActive = FALSE]
        /\ requests' = [requests EXCEPT ![r] = [req EXCEPT !.pc = "updating"]]
  /\ UNCHANGED <<users, overlapped>>
  /\ UNCHANGED <<genVars, chunkVars, histories>>

\* lines 217-245: the chat histories and the counter are updated (the stored
\* file is not kept here); the answer
DeleteUpdate(r) ==
  /\ NoReply
  /\ requests[r].kind = "delete" /\ requests[r].pc = "updating"
  /\ LET req == requests[r]
     IN /\ histories' = Cascade(histories, req.id)
        /\ users' = [users EXCEPT ![req.user] = @ - 1]
        /\ requests' = [requests EXCEPT ![r] =
                          Done(req, [Reply(200, "") EXCEPT !.id = req.id])]
  /\ UNCHANGED <<documents, overlapped>>
  /\ UNCHANGED <<genVars, chunkVars>>

\* the handler is gone
Leave(r) ==
  /\ requests[r].pc = "done"
  /\ requests' = [requests EXCEPT ![r] = IdleRequest]
  /\ UNCHANGED <<documents, users, overlapped>>
  /\ UNCHANGED <<genVars, chunkVars, histories>>

\* document ids a request may name: the oldest, the newest, and one that
\* no Document has
SomeIds == ({1, Len(documents)} \cap DOMAIN documents) \cup {0}

NextFiles ==
  \/ \E r \in Handlers, f \in Files, filtered \in BOOLEAN :
       UploadBegin(r, "u1", f, filtered)
  \/ \E r \in Handlers : UploadCount(r)
  \/ \E r \in Handlers, ok \in BOOLEAN : UploadExtract(r, ok)
  \/ \E r \in Handlers, ok \in BOOLEAN : UploadCreate(r, ok)
  \/ \E r \in Handlers, ok \in BOOLEAN : UploadUpdate(r, ok)
  \/ \E r \in Handlers, id \in SomeIds : DeleteBegin(r, "u1", id)
  \/ \E r \in Handlers : DeleteFind(r)
  \/ \E r \in Handlers : DeleteSoft(r)
  \/ \E r \in Handlers : DeleteUpdate(r)
  \/ \E r \in Handlers : Leave(r)

\* uploads and deletes of one owner, served concurrently
SpecFiles == Init /\ [][NextFiles]_vars

NextCounter ==
  \/ \E r \in Handlers, f \in Files, filtered \in BOOLEAN :
       UploadBegin(r, "u1", f, filtered)
  \/ \E r \in Handlers : UploadCount(r)
  \/ \E r \in Handlers : UploadExtract(r, TRUE)
  \/ \E r \in Handlers : UploadCreate(r, TRUE)
  \/ \E r \in Handlers : UploadUpdate(r, TRUE)
  \/ \E r \in Handlers, id \in SomeIds : DeleteBegin(r, "u1", id)
  \/ \E r \in Handlers : DeleteFind(r)
  \/ \E r \in Handlers : DeleteSoft(r)
  \/ \E r \in Handlers : DeleteUpdate(r)
  \/ \E r \in Handlers : Leave(r)

\* the same, with every operation on the store and the file succeeding
SpecCounter == Init /\ [][NextCounter]_vars

-----------------------------------------------------------------------------
(* chatController.js: chat (and summarizeDocuments, which is chat with type *)
(* 'summary'), chatStream; fileController.js: getDocument                   *)

\* the ids of the store, oldest first and newest first
OldestFirst == [k \in 1..Len(documents) |-> k]
NewestFirst == [k \in 1..Len(documents) |-> Len(documents) + 1 - k]

\* .limit(n)
Limit(ds, n) == SubSeq(ds, 1, Min(n, Len(ds)))

\* faulty variant of FindByIds: the owner is not part of the filter
FindByIds_AnyOwner(ids, userId) ==
  LET Match(k) == \E j \in 1..Len(ids) : ids[j] = k
  IN SelectSeq(OldestFirst, Match)

\* lines 74-77: Document.find({ _id: { $in: documentIds }, userId }); the
\* matches come as the _id index yields them, oldest first
FindByIds(ids, userId) ==
  LET Match(k) == (\E j \in 1..Len(ids) : ids[j] = k) /\ documents[k].userId = userId
  IN SelectSeq(OldestFirst, Match)

\* faulty variant of FindRecent: oldest first
FindRecent_Oldest(userId, n) ==
  LET Mine(k) == documents[k].userId = userId
  IN Limit(SelectSeq(OldestFirst, Mine), n)

\* lines 80-82: Document.find({ userId }).sort({ createdAt: -1 }).limit(n)
FindRecent(userId, n) ==
  LET Mine(k) == documents[k].userId = userId
  IN Limit(SelectSeq(NewestFirst, Mine), n)

\* lines 73-84
ChatDocs(ids, userId) ==
  IF Len(ids) > 0 THEN FindByIds(ids, userId) ELSE FindRecent(userId, 5)

\* faulty variant of StreamDocs: the limit of chat
StreamDocs_Five(ids, userId) ==
  IF Len(ids) > 0 THEN Limit(FindByIds(ids, userId), 5) ELSE FindRecent(userId, 5)

\* lines 269-278
StreamDocs(ids, userId) ==
  IF Len(ids) > 0 THEN Limit(FindByIds(ids, userId), 3) ELSE FindRecent(userId, 3)

\* faulty variant of Section: the chunks go in whole
Section_Whole(doc, idx, maxChunks, maxChars, joiner) ==
  [ label |-> [index |-> idx, name |-> doc.originalName],
    content |-> [j \in 1..Min(maxChunks, Len(doc.chunks)) |-> doc.chunks[j].text],
    joiner |-> joiner ]

\* lines 8-14, 42-48: `Doc${i + 1} "${doc.originalName}": ${content}`
Section(doc, idx, maxChunks, maxChars, joiner) ==
  [ label |-> [index |-> idx, name |-> doc.originalName],
    content |-> [j \in 1..Min(maxChunks, Len(doc.chunks)) |->
                   Substring(doc.chunks[j].text, 0, maxChars)],
    joiner |-> joiner ]

\* lines 6-24
buildDocumentPrompt(question, docs) ==
  [ preamble |-> "Based on these documents, answer the question concisely:",
    sections |-> [k \in 1..Len(docs) |-> Section(documents[docs[k]], k, 4, 500, "\n\n")],
    separator |-> "\n---\n",
    question |-> question ]

\* lines 40-56
buildSummaryPrompt(docs) ==
  [ preamble |-> "Summarize these documents briefly:",
    sections |-> [k \in 1..Len(docs) |-> Section(documents[docs[k]], k, 5, 400, "\n")],
    separator |-> "\n---\n",
    question |-> "" ]

\* lines 148-152
SourceDocuments(docs) ==
  [k \in 1..Len(docs) |->
     [ id |-> docs[k], name |-> documents[docs[k]].originalName,
       chunks |-> Len(documents[docs[k]].chunks) ]]

\* the messages generateWithGemini throws with: lines 78, 146, 150, 191
GenerateErrors ==
  { CircuitOpenMsg, InvalidKeyMsg, QuotaMsg }
  \cup { WrapFailed(msg) : msg \in { m \in BackendErrors \cup {EmptyResponseMsg} :
                                       ~IsInvalidKey(m) /\ ~IsQuotaExceeded(m) } }

\* what generateWithGemini settles with: a result, or one of its errors
GenerateOutcomes ==
  { [ok |-> TRUE, msg |-> {}] } \cup { [ok |-> FALSE, msg |-> m] : m \in GenerateErrors }

\* lines 115-137, 205-229: the answer to a failed generation
GenerationError(msg) ==
  IF includes(msg, "overloaded")
  THEN [Reply(503, "The AI service is currently experiencing high demand")
          EXCEPT !.code = "SERVICE_OVERLOADED", !.retryAfter = 30]
  ELSE IF includes(msg, "quota exceeded")
  THEN [Reply(429, "Daily AI usage limit reached") EXCEPT !.code = "QUOTA_EXCEEDED"]
  ELSE Reply(500, "Failed to generate response. Please try again.")

\* lines 188-193: $inc 'stats.chats' on each of docs
IncrementChats(store, docs) ==
  [k \in DOMAIN store |->
     IF \E j \in 1..Len(docs) : docs[j] = k
     THEN [store[k] EXCEPT !.stats.chats = @ + 1]
     ELSE store[k]]

\* requests that have updated, or may yet update, the stats of a Document
Reads ==
  Cardinality({ k \in DOMAIN documents :
                  documents[k].stats.chats + documents[k].stats.views > 0 })

CanRead == (Reads = 0 /\ histories = <<>>) \/ MaxReads > 1

\* the lists of ids a caller sends: none, every id of the store oldest
\* first, every id newest first
IdLists == { <<>>, OldestFirst, NewestFirst }

\* lines 58-84
ChatBegin(r, userId, ids, type, question) ==
  /\ NoReply
  /\ FreeHandler(r)
  /\ CanRead
  /\ LET req == [IdleRequest EXCEPT !.kind = "chat", !.user = userId, !.ids = ids,
                                    !.type = type, !.question = question]
     IN requests' = [requests EXCEPT ![r] =
          IF question = "" /\ type # "summary"
          THEN Done(req, Reply(400, "Question is required for Q&A mode"))
          ELSE [req EXCEPT !.pc = "finding"]]
  /\ UNCHANGED <<documents, users, overlapped>>
  /\ UNCHANGED <<genVars, chunkVars, histories>>

\* lines 86, 280
NoDocuments_Never(docs) == FALSE
NoDocuments(docs) == Len(docs) = 0

\* lines 73-112: the documents arrive; the prompt; the generation starts
ChatFind(r) ==
  /\ NoReply
  /\ requests[r].kind = "chat" /\ requests[r].pc = "finding"
  /\ LET req == requests[r]
         docs == ChatDocs(req.ids, req.user)
     IN requests' = [requests EXCEPT ![r] =
          IF NoDocuments(docs)
          THEN Done(req, Reply(404, "No documents found. Please upload documents first."))
          ELSE [req EXCEPT !.pc = "generating", !.docs = docs, !.issued = @ + 1,
                           !.prompt = IF req.type = "summary"
                                      THEN buildSummaryPrompt(docs)
                                      ELSE buildDocumentPrompt(req.question, docs)]]
  /\ UNCHANGED <<documents, users, overlapped>>
  /\ UNCHANGED <<genVars, chunkVars, histories>>

\* lines 106-185: generateWithGemini settles; the response data; the history
\* save starts
ChatGenerate(r, out) ==
  /\ NoReply
  /\ requests[r].kind = "chat" /\ requests[r].pc = "generating"
  /\ LET req == requests[r]
     IN requests' = [requests EXCEPT ![r] =
          IF ~out.ok THEN Done([req EXCEPT !.thrown = out.msg], GenerationError(out.msg))
          ELSE [req EXCEPT !.pc = "saving",
                           !.res = [NoResponse EXCEPT !.status = 200,
                                      !.sourceDocuments = SourceDocuments(req.docs)]]]
  /\ UNCHANGED <<documents, users, overlapped>>
  /\ UNCHANGED <<genVars, chunkVars, histories>>

\* faulty variant of HistoryFailure: the failure is the answer
HistoryFailure_Thrown(responseData) == Reply(500, "Failed to generate response. Please try again.")

\* lines 197-203: the catch of the history step, then res.json(responseData)
HistoryFailure(responseData) == responseData

\* lines 162-183
NewHistory(req) == [userId |-> req.user, documentId |-> req.docs[1], isActive |-> TRUE]

\* lines 185-193: chatHistory.save() is done, the updates of the chat
\* counters start; or it fails
ChatSave(r, ok) ==
  /\ NoReply
  /\ requests[r].kind = "chat" /\ requests[r].pc = "saving"
  /\ LET req == requests[r]
     IN IF ok /\ Len(req.docs) > 0
        THEN /\ histories' = Append(histories, NewHistory(req))
             /\ requests' = [requests EXCEPT ![r] = [req EXCEPT !.pc = "updating"]]
        ELSE /\ requests' = [requests EXCEPT ![r] = Done(req, HistoryFailure(req.res))]
             /\ UNCHANGED histories
  /\ UNCHANGED <<documents, users, overlapped>>
  /\ UNCHANGED <<genVars, chunkVars>>

\* lines 188-203: the chat counters are updated, or the updates fail; the
\* answer
ChatUpdate(r, ok) ==
  /\ NoReply
  /\ requests[r].kind = "chat" /\ requests[r].pc = "updating"
  /\ LET req == requests[r]
     IN IF ok
        THEN /\ documents' = IncrementChats(documents, req.docs)
             /\ requests' = [requests EXCEPT ![r] = Done(req, req.res)]
        ELSE /\ requests' = [requests EXCEPT ![r] = Done(req, HistoryFailure(req.res))]
             /\ UNCHANGED documents
  /\ UNCHANGED <<users, overlapped>>
  /\ UNCHANGED <<genVars, chunkVars, histories>>

\* lines 254-278
StreamBegin(r, userId, ids, question) ==
  /\ NoReply
  /\ FreeHandler(r)
  /\ LET req == [IdleRequest EXCEPT !.kind = "stream", !.user = userId, !.ids = ids,
                                    !.type = "question", !.question = question]
     IN requests' = [requests EXCEPT ![r] =
          IF question = ""
          THEN Done(req, Reply(400, "Question is required"))
          ELSE [req EXCEPT !.pc = "finding"]]
  /\ UNCHANGED <<documents, users, overlapped>>
  /\ UNCHANGED <<genVars, chunkVars, histories>>

\* lines 318-321
StreamSources(docs) ==
  [k \in 1..Len(docs) |-> [id |-> docs[k], name |-> documents[docs[k]].originalName]]

\* lines 310, 314-322, 327: the JSON of the events
FragmentEvent(fragment) == [chunk |-> fragment, done |-> FALSE]
DoneEvent(fullResponse, docs) ==
  [ chunk |-> <<>>, done |-> TRUE, fullResponse |-> fullResponse,
    sourceDocuments |-> StreamSources(docs) ]
ErrorEvent(message) == [error |-> message]

\* faulty variant of StreamBreaker: the stream counts like a generation
StreamBreaker_Shared(cb, ok, t) ==
  IF ok THEN ResetOnSuccess(cb) ELSE RecordOverload(cb, t)

\* gemini.js lines 197-222: the breaker after a stream has started or has
\* failed; no statement of generateStreamWithGemini reads or writes it
StreamBreaker(cb, ok, t) == cb

\* chunk.text() of the fragments the backend streams
FragmentTexts == { <<>>, <<"a">>, <<" ", "b">> }

\* faulty variant of Written: every fragment is written
Written_Always(fragment) == TRUE

\* line 308: if (chunkText)
Written(fragment) == fragment # <<>>

\* lines 268-302: the documents arrive; the prompt; the head is written; the
\* request for the stream goes out
StreamFind(r) ==
  /\ NoReply
  /\ requests[r].kind = "stream" /\ requests[r].pc = "finding"
  /\ LET req == requests[r]
         docs == StreamDocs(req.ids, req.user)
     IN requests' = [requests EXCEPT ![r] =
          IF NoDocuments(docs)
          THEN Done(req, Reply(404, "No documents found. Please upload documents first."))
          ELSE [req EXCEPT !.pc = "opening", !.docs = docs, !.issued = @ + 1,
                           !.prompt = buildDocumentPrompt(req.question, docs),
                           !.res = [NoResponse EXCEPT !.status = 200]]]
  /\ UNCHANGED <<documents, users, overlapped>>
  /\ UNCHANGED <<genVars, chunkVars, histories>>

\* lines 299-306, 325-328, gemini.js lines 212-221: the stream is there, or
\* generateStreamWithGemini throws and the error event ends the response
StreamOpen(r, ok) ==
  /\ NoReply
  /\ requests[r].kind = "stream" /\ requests[r].pc = "opening"
  /\ LET req == requests[r]
     IN requests' = [requests EXCEPT ![r] =
          IF ok
          THEN [req EXCEPT !.pc = "streaming", !.fullResponse = <<>>]
          ELSE Done([req EXCEPT !.events = Append(@, ErrorEvent("AI streaming failed"))],
                    [req.res EXCEPT !.error = "AI streaming failed"])]
  /\ circuitBreaker' = StreamBreaker(circuitBreaker, ok, now)
  /\ UNCHANGED <<now, calls, reserved, overloadStreak>>
  /\ UNCHANGED <<documents, users, overlapped>>
  /\ UNCHANGED <<chunkVars, histories>>

\* lines 306-312: a fragment arrives; it is written unless its text is empty
StreamChunk(r, fragment) ==
  /\ NoReply
  /\ requests[r].kind = "stream" /\ requests[r].pc = "streaming"
  /\ Len(requests[r].events) < MaxFragments
  /\ LET req == requests[r]
     IN requests' = [requests EXCEPT ![r] =
          IF Written(fragment)
          THEN [req EXCEPT !.fullResponse = @ \o fragment,
                           !.events = Append(@, FragmentEvent(fragment))]
          ELSE req]
  /\ UNCHANGED <<documents, users, overlapped>>
  /\ UNCHANGED <<genVars, chunkVars, histories>>

\* lines 306-329: the stream ends and the closing event is written, or the
\* stream throws and the error event is; the response ends
StreamEnd(r, ok) ==
  /\ NoReply
  /\ requests[r].kind = "stream" /\ requests[r].pc = "streaming"
  /\ LET req == requests[r]
     IN requests' = [requests EXCEPT ![r] =
          IF ok
          THEN Done([req EXCEPT !.events = Append(@, DoneEvent(req.fullResponse, req.docs))],
                    [req.res EXCEPT !.sourceDocuments = StreamSources(req.docs)])
          ELSE Done([req EXCEPT !.events = Append(@, ErrorEvent("error.message"))],
                    [req.res EXCEPT !.error = "error.message"])]
  /\ circuitBreaker' = StreamBreaker(circuitBreaker, ok, now)
  /\ UNCHANGED <<now, calls, reserved, overloadStreak>>
  /\ UNCHANGED <<documents, users, overlapped>>
  /\ UNCHANGED <<chunkVars, histories>>

\* fileController.js lines 257-263
GetBegin(r, userId, id) ==
  /\ NoReply
  /\ FreeHandler(r)
  /\ CanRead
  /\ requests' = [requests EXCEPT ![r] =
       [IdleRequest EXCEPT !.kind = "get", !.pc = "finding", !.user = userId, !.id = id]]
  /\ UNCHANGED <<documents, users, overlapped>>
  /\ UNCHANGED <<genVars, chunkVars, histories>>

\* fileController.js lines 259-271: the lookup arrives; the view count
GetFind(r) ==
  /\ NoReply
  /\ requests[r].kind = "get" /\ requests[r].pc = "finding"
  /\ LET req == requests[r]
     IN requests' = [requests EXCEPT ![r] =
          IF findOne(req.id, req.user) = 0 THEN Done(req, Reply(404, "Document not found"))
          ELSE [req EXCEPT !.pc = "updating", !.docs = <<req.id>>]]
  /\ UNCHANGED <<documents, users, overlapped>>
  /\ UNCHANGED <<genVars, chunkVars, histories>>

\* fileController.js lines 268-280: the view is counted; the document is sent
GetUpdate(r) ==
  /\ NoReply
  /\ requests[r].kind = "get" /\ requests[r].pc = "updating"
  /\ LET req == requests[r]
     IN /\ documents' = [documents EXCEPT ![req.id].stats.views = @ + 1]
        /\ requests' = [requests EXCEPT ![r] =
             Done(req, [NoResponse EXCEPT !.status = 200, !.id = req.docs[1],
                          !.chunks = Len(documents[req.docs[1]].chunks)])]
  /\ UNCHANGED <<users, overlapped>>
  /\ UNCHANGED <<genVars, chunkVars, histories>>

\* no request is being served
Quiet == \A r \in Handlers : ~Busy(r)

NextChat ==
  \/ \E r \in Handlers, u \in Owners, filtered \in BOOLEAN :
       \E f \in ChatFiles(u) : Quiet /\ UploadBegin(r, u, f, filtered)
  \/ \E r \in Handlers : UploadCount(r)
  \/ \E r \in Handlers : UploadExtract(r, TRUE)
  \/ \E r \in Handlers : UploadCreate(r, TRUE)
  \/ \E r \in Handlers : UploadUpdate(r, TRUE)
  \/ \E r \in Handlers, u \in Owners, id \in SomeIds : Quiet /\ DeleteBegin(r, u, id)
  \/ \E r \in Handlers : DeleteFind(r)
  \/ \E r \in Handlers : DeleteSoft(r)
  \/ \E r \in Handlers : DeleteUpdate(r)
  \/ \E r \in Handlers, u \in Owners, ids \in IdLists :
       \E type \in {"question", "summary"}, question \in {"", "What is it about?"} :
         Quiet /\ ChatBegin(r, u, ids, type, question)
  \/ \E r \in Handlers : ChatFind(r)
  \/ \E r \in Handlers, out \in GenerateOutcomes : ChatGenerate(r, out)
  \/ \E r \in Handlers, ok \in BOOLEAN : ChatSave(r, ok)
  \/ \E r \in Handlers, ok \in BOOLEAN : ChatUpdate(r, ok)
  \/ \E r \in Handlers, u \in Owners, ids \in IdLists :
       \E question \in {"", "What is it about?"} : Quiet /\ StreamBegin(r, u, ids, question)
  \/ \E r \in Handlers : StreamFind(r)
  \/ \E r \in Handlers, ok \in BOOLEAN : StreamOpen(r, ok)
  \/ \E r \in Handlers, ok \in BOOLEAN : StreamEnd(r, ok)
  \/ \E r \in Handlers, u \in Owners, id \in SomeIds : Quiet /\ GetBegin(r, u, id)
  \/ \E r \in Handlers : GetFind(r)
  \/ \E r \in Handlers : GetUpdate(r)
  \/ \E r \in Handlers : Leave(r)

\* the requests of two owners, served one after the other; the streams end
\* before a fragment has arrived
SpecChat == Init /\ [][NextChat]_vars

-----------------------------------------------------------------------------
(* chatStream next to generateWithGemini: the first owner has uploaded one  *)
(* file; streams are served one at a time, and so are the generations       *)

\* the Document of an upload that went well
Uploaded(userId, file, id) ==
  NewDocument([IdleRequest EXCEPT !.user = userId, !.file = file,
                 !.chunks = chunkText(extractText(file), file.originalname)], id)

InitStream ==
  /\ InitGen
  /\ InitChunkIdle
  /\ documents = << Uploaded("u1", CHOOSE f \in ChatFiles("u1") : TRUE, 1) >>
  /\ users = [u \in Owners |-> IF u = "u1" THEN 1 ELSE 0]
  /\ requests = [r \in Handlers |-> IdleRequest]
  /\ histories = <<>>
  /\ overlapped = [u \in Owners |-> FALSE]

\* the options chat passes: lines 110-111
ChatOptions == [maxRetries |-> 3, baseDelay |-> 1500]

NoCall == \A c \in Slots : calls[c].pc = "idle"

NextStream ==
  \/ \E r \in Handlers, u \in Owners, ids \in {<<>>, <<1>>} :
       \E question \in {"", "What is it about?"} : Quiet /\ StreamBegin(r, u, ids, question)
  \/ \E r \in Handlers : StreamFind(r)
  \/ \E r \in Handlers, ok \in BOOLEAN : StreamOpen(r, ok)
  \/ \E r \in Handlers, fragment \in FragmentTexts : StreamChunk(r, fragment)
  \/ \E r \in Handlers, ok \in BOOLEAN : StreamEnd(r, ok)
  \/ \E r \in Handlers : Leave(r)
  \/ \E c \in Slots : NoCall /\ Begin(c, ChatOptions)
  \/ \E c \in Slots : Respond(c, <<"o", "k">>)
  \/ \E c \in Slots : Fail(c, {"503 Service Unavailable", "The model is overloaded"}, 0)
  \/ \E c \in Slots : Wake(c)
  \/ \E c \in Slots : Finish(c)
  \/ Tick

SpecStream == InitStream /\ [][NextStream]_vars

-----------------------------------------------------------------------------
(* Vocabulary of the properties: what a step did, read off the two states *)

\* slot c's handler called generateWithGemini in this step
BeginStep(c) == calls[c].pc = "idle" /\ calls'[c].pc # "idle"

\* a backend request of slot c's call went out in this step
RequestIssued(c) == calls[c].pc # "inflight" /\ calls'[c].pc = "inflight"

\* the backend answered slot c's request with a response in this step
ResponseStep(c) == calls[c].pc = "inflight" /\ calls'[c].got.type = "text"

\* the backend rejected slot c's request in this step
FailureStep(c) == calls[c].pc = "inflight" /\ calls'[c].got.type = "error"

OverloadPhrases == {"503 Service Unavailable", "The model is overloaded"}
NonRetryablePhrases == {"API_KEY_INVALID", "QUOTA_EXCEEDED"}
RetryablePhrases ==
  OverloadPhrases \cup {"RATE_LIMIT_EXCEEDED", "RESOURCE_EXHAUSTED", "INTERNAL",
                        "UNAVAILABLE", "DEADLINE_EXCEEDED"}

OverloadFailureStep(c) ==
  FailureStep(c) /\ calls'[c].got.msg \cap OverloadPhrases # {}

\* elapsed time since the last overload failure, at time t
SinceLastFailure(t) == t - ToNumber(circuitBreaker.lastFailureTime)

\* the call entering slot c finds the breaker open, its timeout not elapsed
BlockedEntry(c) ==
  BeginStep(c) /\ circuitBreaker.isOpen /\ SinceLastFailure(now) < 60000

\* the call entering slot c finds the breaker open, its timeout elapsed
ProbeEntry(c) ==
  BeginStep(c) /\ circuitBreaker.isOpen /\ SinceLastFailure(now) >= 60000

\* a text with a character that is not whitespace
NonBlank(t) == \E k \in 1..Len(t) : t[k] \notin Whitespace

-----------------------------------------------------------------------------
(* C1 *)

C1_ThirdFailureOpens ==
  (overloadStreak = 2 /\ overloadStreak' = 3) => circuitBreaker'.isOpen

C1_FailFast ==
  \A c \in Slots :
    BlockedEntry(c) =>
      /\ calls'[c].pc = "thrown"
      /\ calls'[c].result.kind = "CircuitOpen"
      /\ calls'[c].issued = 0
      /\ circuitBreaker' = circuitBreaker

\* C1: counted from a closed breaker (the start, or the last backend
\* response), the third overload-class failure leaves isOpen true; a call that
\* begins while isOpen holds and less than 60000 ms have passed since
\* lastFailureTime throws the circuit-breaker error, issues no backend
\* request and leaves the breaker as it was.
C1_OpensAndFailsFast == [][C1_ThirdFailureOpens /\ C1_FailFast]_vars

C1_Witness ==
  \E c \in Slots :
    /\ calls[c].pc = "thrown"
    /\ calls[c].result.kind = "CircuitOpen"
    /\ calls[c].issued = 0
    /\ overloadStreak = 3
    /\ circuitBreaker.isOpen

-----------------------------------------------------------------------------
(* C2 *)

C2_OpenImpliesCount == circuitBreaker.isOpen => circuitBreaker.failureCount >= 3

C2_Opens ==
  (~circuitBreaker.isOpen /\ circuitBreaker'.isOpen) =>
    /\ \E c \in Slots : OverloadFailureStep(c)
    /\ circuitBreaker'.failureCount = circuitBreaker.failureCount + 1
    /\ circuitBreaker'.failureCount >= 3

C2_Closes ==
  (circuitBreaker.isOpen /\ ~circuitBreaker'.isOpen) =>
    \/ \E c \in Slots : ProbeEntry(c)
    \/ \E c \in Slots : ResponseStep(c)

\* C2: under every interleaving of concurrent calls, isOpen implies
\* failureCount >= 3; isOpen turns true only in a step that records an
\* overload-class failure bringing failureCount to 3 or more, and turns false
\* only at the entry of a call after resetTimeout has elapsed or on a backend
\* response.
C2_BreakerTransitions == [](C2_OpenImpliesCount) /\ [][C2_Opens /\ C2_Closes]_vars

C2_Witness ==
  /\ circuitBreaker.isOpen
  /\ \E c, d \in Slots : c # d /\ Active(c) /\ Active(d)

-----------------------------------------------------------------------------
(* C3 *)

\* the breaker, as the step finds it, is open and its timeout has not
\* elapsed when the step's request goes out
OpenWhenIssued == circuitBreaker.isOpen /\ SinceLastFailure(now') < 60000

\* C3 as stated: while isOpen holds and resetTimeout has not elapsed, no
\* backend request goes out at all, from new calls or from calls that entered
\* earlier.
C3_NoRequestWhileOpen ==
  [][\A c \in Slots : RequestIssued(c) => ~OpenWhenIssued]_vars

\* C3, amended: while isOpen holds and resetTimeout has not elapsed, no call
\* that begins issues a backend request; the only requests that go out are
\* the remaining retries of calls that entered earlier, after their backoff.
C3_OnlyRetriesWhileOpen ==
  [][\A c \in Slots :
       (RequestIssued(c) /\ OpenWhenIssued) =>
         /\ ~BeginStep(c)
         /\ calls[c].pc = "sleeping"
         /\ calls'[c].attempt = calls[c].attempt + 1]_vars

C3_Witness ==
  \E c \in Slots :
    /\ calls[c].pc = "inflight"
    /\ calls[c].attempt = 4
    /\ \A d \in Slots : d # c => calls[d].pc = "idle"
    /\ reserved = calls[c].maxRetries
    /\ circuitBreaker.isOpen
    /\ SinceLastFailure(now) < 60000

-----------------------------------------------------------------------------
(* C4 *)

C4_ProbeGoesOn ==
  \A c \in Slots :
    ProbeEntry(c) =>
      /\ calls'[c].pc = "inflight"
      /\ calls'[c].attempt = 1
      /\ calls'[c].issued = 1
      /\ ~circuitBreaker'.isOpen

C4_ProbeSucceeds ==
  \A c \in Slots :
    (calls[c].probe /\ calls[c].attempt = 1 /\ ResponseStep(c)
       /\ NonBlank(calls'[c].got.text)) =>
      /\ calls'[c].pc = "returned"
      /\ calls'[c].result.kind = "ok"
      /\ calls'[c].result.attempts = 1
      /\ ~circuitBreaker'.isOpen
      /\ circuitBreaker'.failureCount = 0

\* C4: a call that begins while isOpen holds and at least resetTimeout has
\* elapsed since lastFailureTime is not rejected: it sets isOpen to false and
\* issues its first backend request; if that request is answered with a usable
\* text, the call returns a result and the breaker is left with isOpen false
\* and failureCount 0.
C4_ProbeAfterTimeout == [][C4_ProbeGoesOn /\ C4_ProbeSucceeds]_vars

C4_Witness ==
  \E c \in Slots :
    /\ calls[c].pc = "returned"
    /\ calls[c].probe
    /\ calls[c].result.attempts = 1
    /\ ~circuitBreaker.isOpen

-----------------------------------------------------------------------------
(* C5 *)

\* the first attempt of a call that entered on an elapsed open breaker
\* fails with an overload-class error
ProbeFirstFails(c) ==
  calls[c].probe /\ calls[c].attempt = 1 /\ OverloadFailureStep(c)

-----------------------------------------------------------------------------
(* C6 *)

\* C6 as stated: after a backend attempt that returns a response,
\* failureCount = 0 and isOpen = false; when the response text is non-empty
\* the call returns a result whose attempts field is the index of the attempt.
C6_NonEmptyTextReturns ==
  [][\A c \in Slots :
       ResponseStep(c) =>
         /\ circuitBreaker'.failureCount = 0
         /\ ~circuitBreaker'.isOpen
         /\ calls'[c].got.text # <<>> =>
               /\ calls'[c].pc = "returned"
               /\ calls'[c].result.attempts = calls[c].attempt]_vars

\* C6, amended: after a backend attempt that returns a response,
\* failureCount = 0 and isOpen = false, whatever the breaker was before; when
\* the response text has a character that is not whitespace the call returns
\* the trimmed text with attempts equal to the index of the attempt; when the
\* text is empty or all whitespace the call throws instead.
C6_ResponseResetsBreaker ==
  [][\A c \in Slots :
       ResponseStep(c) =>
         /\ circuitBreaker'.failureCount = 0
         /\ ~circuitBreaker'.isOpen
         /\ NonBlank(calls'[c].got.text) =>
               /\ calls'[c].pc = "returned"
               /\ calls'[c].result.attempts = calls[c].attempt
               /\ NonBlank(calls'[c].result.response)
         /\ ~NonBlank(calls'[c].got.text) =>
               /\ calls'[c].pc = "thrown"
               /\ calls'[c].result.kind = "GenerationFailed"]_vars

C6_Witness ==
  \E c \in Slots :
    /\ calls[c].pc = "thrown"
    /\ calls[c].got.type = "text"
    /\ calls[c].got.text # <<>>
    /\ calls[c].result.attempts >= 2
    /\ circuitBreaker.failureCount = 0
    /\ circuitBreaker.lastFailureTime # NULL

-----------------------------------------------------------------------------
(* C7 *)

\* C7: a backend failure whose message contains API_KEY_INVALID or
\* QUOTA_EXCEEDED makes the call throw at once, with the error of its kind:
\* no further request, no backoff wait, and failureCount, isOpen and
\* lastFailureTime as they were.
C7_NonRetryableThrows ==
  [][\A c \in Slots :
       /\ (FailureStep(c) /\ calls'[c].got.msg \cap NonRetryablePhrases # {}) =>
             /\ calls'[c].pc = "thrown"
             /\ calls'[c].result.kind =
                   IF "API_KEY_INVALID" \in calls'[c].got.msg
                   THEN "InvalidKey" ELSE "QuotaExceeded"
             /\ calls'[c].result.attempts = calls[c].attempt
             /\ calls'[c].issued = calls[c].issued
             /\ calls'[c].waits = calls[c].waits
             /\ circuitBreaker' = circuitBreaker
       /\ calls[c].pc = "thrown" => ~RequestIssued(c)]_vars

C7_Witness ==
  \E c \in Slots :
    /\ calls[c].pc = "thrown"
    /\ calls[c].result.kind \in {"InvalidKey", "QuotaExceeded"}
    /\ calls[c].result.attempts = 2
    /\ calls[c].issued = 2
    /\ circuitBreaker.failureCount = 1

-----------------------------------------------------------------------------
(* C8 *)

\* a running call is within its attempts, one request per attempt, and no
\* call ends without a result or an error
C8_WithinAttempts ==
  \A c \in Slots :
    /\ calls[c].pc # "fellthrough"
    /\ Active(c) =>
          /\ calls[c].maxRetries >= 1
          /\ 1 <= calls[c].attempt /\ calls[c].attempt <= calls[c].maxRetries
          /\ calls[c].issued = calls[c].attempt
    /\ Settled(c) => calls[c].result.kind # "none"

C8_Steps ==
  \A c \in Slots :
    LET call == calls[c]
        after == calls'[c]
        retryable == /\ after.got.msg \cap RetryablePhrases # {}
                     /\ after.got.msg \cap NonRetryablePhrases = {}
        unlisted == after.got.msg \cap (RetryablePhrases \cup NonRetryablePhrases) = {}
    IN /\ Active(c) =>
             \* every step of the call takes it forward or ends it
             \/ after = call
             \/ call.pc = "inflight" /\ after.pc \in {"sleeping", "returned", "thrown"}
             \/ call.pc = "sleeping" /\ after.pc = "inflight"
                  /\ after.attempt = call.attempt + 1
       /\ (FailureStep(c) /\ retryable /\ call.attempt < call.maxRetries) =>
             after.pc = "sleeping" /\ after.attempt = call.attempt
       /\ (FailureStep(c) /\ retryable /\ call.attempt = call.maxRetries) =>
             /\ after.pc = "thrown"
             /\ after.result.kind = "GenerationFailed"
             /\ after.result.attempts = call.maxRetries
             /\ after.issued = call.maxRetries
             /\ after.result.msg = {"AI generation failed after"} \cup after.got.msg
       /\ (FailureStep(c) /\ unlisted) =>
             /\ after.pc = "thrown"
             /\ after.result.kind = "GenerationFailed"
             /\ after.result.attempts = call.attempt
             /\ after.issued = call.attempt
             /\ after.result.msg = {"AI generation failed after"} \cup after.got.msg

\* C8: for maxRetries >= 1 a call issues at most maxRetries backend requests
\* and ends with a result or a thrown error, each of its steps taking it
\* forward; when every attempt fails with a retryable error it issues exactly
\* maxRetries requests and throws an error that reports maxRetries attempts
\* and wraps the last message; an error neither retryable nor listed as
\* non-retryable ends the call at the attempt where it occurs.
C8_BoundedAttempts == [](C8_WithinAttempts) /\ [][C8_Steps]_vars

C8_Witness ==
  \E c \in Slots :
    /\ calls[c].pc = "thrown"
    /\ calls[c].result.kind = "GenerationFailed"
    /\ calls[c].result.attempts = 4
    /\ calls[c].issued = 4
    /\ calls[c].waits = 3
    /\ calls[c].got.msg \cap RetryablePhrases # {}

-----------------------------------------------------------------------------
(* C9 *)

\* the call in slot c starts a backoff wait in this step
SleepStep(c) == calls[c].pc = "inflight" /\ calls'[c].pc = "sleeping"

C9_Waits ==
  \A c \in Slots :
    LET call == calls[c]
        after == calls'[c]
        raw == call.baseDelay * 2^(call.attempt - 1)
    IN /\ SleepStep(c) =>
             \* min(raw + jitter, 10000) for some jitter in [0, 1000)
             /\ Min(raw, 10000) <= after.delay
             /\ after.delay <= Min(raw + 999, 10000)
             /\ after.delay <= 10000
             /\ (call.baseDelay = 1000 /\ call.attempt = 1) =>
                   1000 <= after.delay /\ after.delay <= 2000
             /\ (call.baseDelay = 1000 /\ call.attempt = 2) =>
                   2000 <= after.delay /\ after.delay <= 3000
             /\ after.wakeAt = now + after.delay
             /\ after.waits = call.waits + 1
             \* never after the last attempt, never after a non-retryable error
             /\ call.attempt < call.maxRetries
             /\ after.got.type = "error"
             /\ after.got.msg \cap NonRetryablePhrases = {}
       \* no other step of a call adds a wait
       /\ (Active(c) /\ ~SleepStep(c)) => after.waits = call.waits
       \* the next attempt starts no earlier than the wait allows
       /\ (call.pc = "sleeping" /\ after.pc # "sleeping") => now' >= call.wakeAt

\* C9: the wait after failed attempt n is min(baseDelay * 2^(n-1) + jitter,
\* 10000) ms with 0 <= jitter < 1000; for baseDelay = 1000 the waits before
\* attempts 2 and 3 lie in [1000, 2000] and [2000, 3000]; no wait exceeds
\* 10000 ms; no wait follows the last attempt or a non-retryable error.
C9_BackoffDelay == [][C9_Waits]_vars

C9_Witness ==
  \E c \in Slots :
    /\ calls[c].pc = "sleeping"
    /\ calls[c].attempt = 2
    /\ calls[c].baseDelay * 2 + 999 > 10000
    /\ calls[c].delay = 10000

-----------------------------------------------------------------------------
(* C10 *)

RECURSIVE ConcatTexts(_)
\* the chunk texts, joined in order
ConcatTexts(cs) == IF cs = <<>> THEN <<>> ELSE Head(cs).text \o ConcatTexts(Tail(cs))

\* C10: the chunks chunkText returns for a text T with chunk size 1200 start
\* at 0, each ends where the next starts, the last ends at len(T), each
\* chunk's text is T[start, end), and the texts joined in order are T.
C10_ChunksPartitionText ==
  chunkPc = "done" =>
    LET n == Len(chunks)
    IN /\ n > 0 => chunks[1].source.start = 0 /\ chunks[n].source.end = Len(text)
       /\ \A k \in 1..(n - 1) : chunks[k].source.end = chunks[k + 1].source.start
       /\ \A k \in 1..n :
            LET a == chunks[k].source.start
                b == chunks[k].source.end
            IN /\ 0 <= a /\ a <= b /\ b <= Len(text)
               /\ chunks[k].text = [j \in 1..(b - a) |-> text[a + j]]
       /\ ConcatTexts(chunks) = text

C10_Witness ==
  /\ chunkPc = "done"
  /\ Len(text) = 3000
  /\ Len(chunks) = 3
  /\ chunks[3].source.start = 2400

-----------------------------------------------------------------------------
(* C11 *)

\* ceil(a / b) for a >= 0, b > 0
CeilDiv(a, b) == (a + b - 1) \div b

C11_CountAndLengths ==
  chunkPc = "done" =>
    LET n == Len(chunks)
    IN /\ n = (IF Len(text) = 0 THEN 0 ELSE CeilDiv(Len(text), 1200))
       /\ \A k \in 1..(n - 1) : Len(chunks[k].text) = 1200
       /\ n > 0 => (1 <= Len(chunks[n].text) /\ Len(chunks[n].text) <= 1200)
       /\ Len(text) = 3000 =>
            <<Len(chunks[1].text), Len(chunks[2].text), Len(chunks[3].text)>>
              = <<1200, 1200, 600>>

\* C11: chunkText returns ceil(len(T) / 1200) chunks for a non-empty T and
\* none for the empty T; every chunk but the last has 1200 characters, the
\* last between 1 and 1200; a 3000-character text gives lengths 1200, 1200,
\* 600; and every call of chunkText returns.
C11_ChunkCount == [](C11_CountAndLengths) /\ (chunkPc = "idle" ~> chunkPc = "done")

C11_Witness ==
  /\ chunkPc = "done"
  /\ Len(text) = 2401
  /\ Len(chunks) = 3
  /\ Len(chunks[3].text) = 1

-----------------------------------------------------------------------------
(* Vocabulary of the file requests *)

\* handler r took in an upload in this step
UploadBeginStep(r) == requests[r].pc = "idle" /\ requests'[r].kind = "upload"

\* the upload of handler r went from one await to the next, or to its answer
UploadStep(r, from, to) ==
  requests[r].kind = "upload" /\ requests[r].pc = from /\ requests'[r].pc = to

\* the store is as it was
StoreUnchanged == documents' = documents /\ users' = users

\* the owner's active documents
ActiveCount(u) ==
  Cardinality({ k \in DOMAIN documents : documents[k].userId = u /\ documents[k].isActive })

-----------------------------------------------------------------------------
(* C12 *)

C12_AtMostFive == \A u \in Owners : ~overlapped[u] => ActiveCount(u) <= 5

C12_LimitCheck ==
  \A r \in Handlers :
    LET u == requests[r].user
        after == requests'[r]
    IN (requests[r].kind = "upload" /\ requests[r].pc = "counting"
          /\ after.pc # "counting" /\ ~overlapped[u]) =>
         IF ActiveCount(u) = 5
         THEN /\ after.pc = "done"
              /\ after.res.status = 400
              /\ after.res.error = "Document limit reached"
              /\ after.res.limit = 5 /\ after.res.current = 5
              /\ ~after.extracted /\ after.created = 0
              /\ StoreUnchanged
         ELSE /\ ActiveCount(u) < 5
              /\ after.pc = "extracting"

\* C12: while an owner's uploads and deletes run one at a time, the owner
\* never has more than 5 active documents; an upload that finds 5 of them is
\* answered with the limit error (limit 5, current 5), extracts nothing,
\* creates no Document and changes no counter; an upload that finds fewer
\* goes on, so that after one soft delete one more upload gets through and
\* the next is rejected again.
C12_LimitEnforced == [](C12_AtMostFive) /\ [][C12_LimitCheck]_vars

C12_Witness ==
  /\ ~overlapped["u1"]
  /\ Len(documents) = 6
  /\ ActiveCount("u1") = 5
  /\ ~documents[1].isActive
  /\ \E r \in Handlers :
       /\ requests[r].pc = "done" /\ requests[r].kind = "upload"
       /\ requests[r].res.limit = 5 /\ requests[r].res.current = 5

-----------------------------------------------------------------------------
(* C13 *)

C13_OnlyByInterleaving == \A u \in Owners : ActiveCount(u) > 5 => overlapped[u]

C13_WriteIgnoresCount ==
  \A r \in Handlers :
    UploadStep(r, "creating", "updating") =>
      /\ Len(documents') = Len(documents) + 1
      /\ documents'[Len(documents')].userId = requests[r].user
      /\ documents'[Len(documents')].isActive

\* C13: the count read and the Document write of uploadFile are separate
\* steps: an upload that passed the check writes its Document whatever the
\* count has become, so interleaved uploads of one owner reach more than 5
\* active documents (and nothing else does).
C13_CheckThenWrite == [](C13_OnlyByInterleaving) /\ [][C13_WriteIgnoresCount]_vars

C13_Witness ==
  /\ ActiveCount("u1") > 5
  /\ \E r \in Handlers : requests[r].pc = "done" /\ requests[r].res.status = 200
                          /\ requests[r].created = Len(documents)

-----------------------------------------------------------------------------
(* C14 *)

SupportedTypes ==
  { "application/pdf", "application/msword",
    "application/vnd.openxmlformats-officedocument.wordprocessingml.document",
    "text/plain" }

C14_Order ==
  \A r \in Handlers :
    UploadBeginStep(r) =>
      LET after == requests'[r]
          f == after.file
      IN /\ StoreUnchanged
         /\ IF f.mimetype \notin SupportedTypes
            THEN after.pc = "done" /\ after.res.error = "Unsupported file type"
            ELSE IF f.size > 10485760
            THEN after.pc = "done"
                 /\ after.res.error \in {"File too large (max 10MB)", "File too large"}
            ELSE after.pc = "counting"

C14_CountLast ==
  \A r \in Handlers :
    (UploadStep(r, "counting", "done") \/ UploadStep(r, "counting", "extracting")) =>
      /\ StoreUnchanged
      /\ requests'[r].pc = "done" <=> ActiveCount(requests[r].user) >= 5
      /\ requests'[r].pc = "done" => requests'[r].res.error = "Document limit reached"

C14_NothingDone ==
  \A r \in Handlers :
    (requests[r].pc = "done" /\ requests[r].kind = "upload"
       /\ requests[r].res.error \in {"Unsupported file type", "File too large (max 10MB)",
                                     "File too large", "Document limit reached"}) =>
      ~requests[r].extracted /\ requests[r].created = 0

\* C14: uploadFile checks the MIME type, then the size (more than 10 MiB is
\* rejected, exactly 10 MiB passes), then the owner's active-document count;
\* the first check that fails gives the error; a failed check extracts
\* nothing, creates no Document and changes no counter.
C14_ValidationOrder ==
  [][C14_Order /\ C14_CountLast]_vars /\ [](C14_NothingDone)

C14_Witness ==
  /\ ActiveCount("u1") = 5
  /\ \E r \in Handlers :
       /\ requests[r].pc = "done" /\ requests[r].user = "u1"
       /\ requests[r].file.mimetype = "image/png"
       /\ requests[r].file.size > 10485760
       /\ requests[r].res.status = 400
       /\ requests[r].res.error = "Unsupported file type"

-----------------------------------------------------------------------------
(* C15 *)

\* the counter update of handler r's upload failed in this step
CounterUpdateFails(r) == UploadStep(r, "updating", "done") /\ users' = users

\* C15: when the counter increment fails after the Document write, uploadFile
\* still answers with the success payload of the created Document.
C15_CounterFailureIsSuccess ==
  [][\A r \in Handlers :
       CounterUpdateFails(r) =>
         /\ requests'[r].res.status = 200
         /\ requests'[r].res.id = requests[r].created]_vars

\* what the handler does instead: the Document stays, the answer is the 500
\* of the catch block
C15_CounterFailureIsError ==
  [][\A r \in Handlers :
       CounterUpdateFails(r) =>
         /\ requests'[r].res.status = 500
         /\ requests[r].created \in DOMAIN documents'
         /\ documents' = documents]_vars

C15_Witness ==
  \E r \in Handlers :
    /\ requests[r].pc = "done" /\ requests[r].kind = "upload"
    /\ requests[r].created \in DOMAIN documents
    /\ requests[r].res.status = 500

-----------------------------------------------------------------------------
(* C16 *)

\* the length of the text extracted from the file of that name
ExtractedLength(name) == (CHOOSE f \in Files : f.originalname = name).length

\* the chunks are the whole text of the file, cut in order
CompleteChunks(doc) ==
  LET cs == doc.chunks
      n == Len(cs)
      len == ExtractedLength(doc.originalName)
  IN /\ n = (len + 1199) \div 1200
     /\ \A k \in 1..n :
          /\ cs[k].source.start = (k - 1) * 1200
          /\ cs[k].source.end = (IF k = n THEN len ELSE k * 1200)
          /\ cs[k].text = [name |-> doc.originalName, from |-> cs[k].source.start,
                           to |-> cs[k].source.end]

C16_ExtractionFailure ==
  \A r \in Handlers :
    (UploadStep(r, "extracting", "done")) =>
      /\ requests'[r].res.status = 500
      /\ ~requests'[r].extracted /\ requests'[r].created = 0
      /\ StoreUnchanged

C16_Order ==
  \A r \in Handlers :
    /\ UploadStep(r, "extracting", "creating") =>
         requests'[r].extracted /\ requests'[r].created = 0 /\ StoreUnchanged
    /\ (Len(documents') > Len(documents)) =>
         \E q \in Handlers :
           /\ UploadStep(q, "creating", "updating")
           /\ requests[q].extracted
           /\ documents'[Len(documents')].chunks = requests[q].chunks
    /\ (requests'[r].kind = "upload" /\ requests'[r].res.status = 200) =>
         requests'[r].extracted /\ requests'[r].created \in DOMAIN documents'

\* C16: when extraction throws, uploadFile answers with a failure, creates no
\* Document and leaves the counter alone; in a successful upload extraction
\* is over before chunking and chunking before the Document write, and every
\* persisted Document carries the complete chunk list of its extracted text.
C16_ExtractChunkPersist ==
  /\ [][C16_ExtractionFailure /\ C16_Order]_vars
  /\ [](\A k \in DOMAIN documents : CompleteChunks(documents[k]))

C16_Witness ==
  /\ Len(documents) >= 1
  /\ Len(documents[1].chunks) = 2
  /\ \E r \in Handlers :
       /\ requests[r].pc = "done" /\ requests[r].kind = "upload"
       /\ requests[r].res = [NoResponse EXCEPT !.status = 500, !.error = "e.message"]
       /\ ~requests[r].extracted

-----------------------------------------------------------------------------
(* Vocabulary of the chat requests *)

\* the request of handler r has resolved its documents and built its prompt
HasPrompt(r) ==
  requests[r].kind \in {"chat", "stream"} /\ Len(requests[r].docs) > 0

\* text t is the beginning of a chunk of a document of owner u
FromDocumentOf(t, u) ==
  \E k \in DOMAIN documents :
    /\ documents[k].userId = u
    /\ \E j \in 1..Len(documents[k].chunks) :
         LET whole == documents[k].chunks[j].text
         IN t.name = whole.name /\ t.from = whole.from /\ t.to <= whole.to

\* position of id in the caller's list (0: not in it)
PositionIn(ids, id) ==
  IF \E j \in 1..Len(ids) : ids[j] = id
  THEN CHOOSE j \in 1..Len(ids) : ids[j] = id /\ \A h \in 1..(j - 1) : ids[h] # id
  ELSE 0

RECURSIVE SumLengths(_)
\* the characters of a sequence of texts
SumLengths(ts) == IF ts = <<>> THEN 0 ELSE (Head(ts).to - Head(ts).from) + SumLengths(Tail(ts))

RECURSIVE DocumentCharacters(_)
\* the characters of a prompt's sections that come from documents
DocumentCharacters(sections) ==
  IF sections = <<>> THEN 0
  ELSE SumLengths(Head(sections).content) + DocumentCharacters(Tail(sections))

-----------------------------------------------------------------------------
(* C17 *)

C17_ReadsOwn ==
  \A r \in Handlers :
    LET req == requests[r]
    IN req.kind \in {"chat", "stream", "get", "delete"} =>
         /\ \A j \in 1..Len(req.docs) : documents[req.docs[j]].userId = req.user
         /\ \A k \in 1..Len(req.prompt.sections) :
              \A j \in 1..Len(req.prompt.sections[k].content) :
                FromDocumentOf(req.prompt.sections[k].content[j], req.user)
         /\ \A j \in 1..Len(req.res.sourceDocuments) :
              documents[req.res.sourceDocuments[j].id].userId = req.user
         /\ (req.res.status = 200 /\ req.kind \in {"get", "delete"}) =>
              documents[req.res.id].userId = req.user

C17_WritesOwn ==
  \A k \in DOMAIN documents :
    documents'[k] # documents[k] =>
      \E r \in Handlers : Busy(r) /\ requests[r].user = documents[k].userId

\* C17: a chat or streaming request of owner U finds, puts in its prompt,
\* reports as sourceDocuments and counts a chat on documents of U only, also
\* when documentIds names documents of another owner; getDocument and
\* deleteFile by U return and change documents of U only.
C17_OwnerIsolation == [](C17_ReadsOwn) /\ [][C17_WritesOwn]_vars

C17_Witness ==
  \E r \in Handlers :
    /\ requests[r].kind = "chat" /\ requests[r].pc = "done" /\ requests[r].user = "u1"
    /\ requests[r].res.status = 200
    /\ \E j \in 1..Len(requests[r].ids) : documents[requests[r].ids[j]].userId = "u2"
    /\ \E k \in DOMAIN documents : documents[k].stats.chats = 1
    /\ \A k \in DOMAIN documents : documents[k].userId = "u2" => documents[k].stats.chats = 0

-----------------------------------------------------------------------------
(* C18 *)

C18_Sections ==
  \A r \in Handlers :
    HasPrompt(r) =>
      LET req == requests[r]
          n == Len(req.docs)
          maxChunks == IF req.type = "summary" THEN 5 ELSE 4
          maxChars == IF req.type = "summary" THEN 400 ELSE 500
      IN /\ Len(req.prompt.sections) = n
         /\ \A k \in 1..n :
              LET sec == req.prompt.sections[k]
                  doc == documents[req.docs[k]]
                  m == IF Len(doc.chunks) < maxChunks THEN Len(doc.chunks) ELSE maxChunks
              IN /\ sec.label = [index |-> k, name |-> doc.originalName]
                 /\ Len(sec.content) = m
                 /\ \A j \in 1..m :
                      LET whole == doc.chunks[j].text
                          len == whole.to - whole.from
                      IN sec.content[j] =
                           [ name |-> whole.name, from |-> whole.from,
                             to |-> whole.from + (IF len < maxChars THEN len ELSE maxChars) ]
         /\ req.type = "question" => DocumentCharacters(req.prompt.sections) <= n * 4 * 500

\* C18: what a prompt takes from an included document is its chunks 0..K-1
\* (all of them if it has fewer), in order, each cut to its first C
\* characters, (K, C) being (4, 500) for a question and (5, 400) for a
\* summary; there is one 'Doc<i>' section per document, and a question
\* prompt over d documents holds at most d*4*500 characters of documents.
C18_PromptChunks == [](C18_Sections)

C18_Witness ==
  \E r \in Handlers :
    /\ requests[r].kind = "chat" /\ requests[r].type = "question"
    /\ requests[r].pc = "generating"
    /\ requests[r].ids # <<>>
    /\ Len(requests[r].prompt.sections) = 2
    /\ \A k \in 1..2 :
         /\ Len(documents[requests[r].docs[k]].chunks) >= 4
         /\ Len(requests[r].prompt.sections[k].content) = 4
         /\ \A j \in 1..4 :
              requests[r].prompt.sections[k].content[j].to
                - requests[r].prompt.sections[k].content[j].from = 500

-----------------------------------------------------------------------------
(* C19 *)

\* C19: at most 5 documents contribute to the prompt of chat, at most 3 to
\* that of chatStream, with documentIds and without, after any uploads and
\* deletes.
C19_DocumentCap ==
  \A r \in Handlers :
    /\ requests[r].kind = "chat" => Len(requests[r].docs) <= 5
    /\ requests[r].kind = "stream" => Len(requests[r].docs) <= 3

\* what holds: the cap of chatStream, and that of chat without documentIds
C19_CapWithoutIds ==
  \A r \in Handlers :
    /\ (requests[r].kind = "chat" /\ requests[r].ids = <<>>) => Len(requests[r].docs) <= 5
    /\ requests[r].kind = "stream" => Len(requests[r].docs) <= 3

C19_Witness ==
  \E r \in Handlers :
    /\ requests[r].kind = "chat" /\ requests[r].pc = "generating"
    /\ Len(requests[r].ids) >= 6
    /\ Len(requests[r].prompt.sections) = 6

-----------------------------------------------------------------------------
(* C20 *)

\* C20: with documentIds the documents are in the prompt (Doc1, Doc2, ...)
\* and in sourceDocuments in the order of the caller's list; without, the
\* most recently created comes first.
C20_CallerOrder ==
  \A r \in Handlers :
    HasPrompt(r) =>
      LET req == requests[r]
          n == Len(req.docs)
      IN /\ \A k \in 1..n :
              req.prompt.sections[k].label =
                [index |-> k, name |-> documents[req.docs[k]].originalName]
         /\ \A k \in 1..Len(req.res.sourceDocuments) :
              req.res.sourceDocuments[k].id = req.docs[k]
         /\ \A a, b \in 1..n :
              a < b =>
                IF req.ids # <<>>
                THEN PositionIn(req.ids, req.docs[a]) < PositionIn(req.ids, req.docs[b])
                ELSE req.docs[a] > req.docs[b]

\* what holds: with documentIds the documents come oldest first, whatever
\* the order of the list
C20_StoreOrder ==
  \A r \in Handlers :
    HasPrompt(r) =>
      LET req == requests[r]
          n == Len(req.docs)
      IN /\ \A k \in 1..Len(req.res.sourceDocuments) :
              req.res.sourceDocuments[k].id = req.docs[k]
         /\ \A a, b \in 1..n :
              a < b =>
                IF req.ids # <<>>
                THEN req.docs[a] < req.docs[b]
                ELSE req.docs[a] > req.docs[b]

C20_Witness ==
  \E r \in Handlers :
    /\ requests[r].kind = "chat" /\ requests[r].pc = "done"
    /\ requests[r].res.status = 200
    /\ Len(requests[r].ids) >= 2
    /\ requests[r].ids[1] > requests[r].ids[2]
    /\ Len(requests[r].res.sourceDocuments) >= 2
    /\ requests[r].res.sourceDocuments[1].id < requests[r].res.sourceDocuments[2].id

-----------------------------------------------------------------------------
(* C26 *)

\* the maximal runs of characters that are not whitespace
Tokens(s) ==
  Cardinality({ k \in 1..Len(s) :
                  s[k] \notin {" ", "\n", "\t"} /\ (k = 1 \/ s[k - 1] \in {" ", "\n", "\t"}) })

\* C26: the wordCount uploadFile calculates is the number of maximal
\* non-whitespace tokens of the extracted text, for every text: the empty
\* one, one of whitespace only, one that begins or ends with whitespace.
C26_WordCountIsTokens == metadata.calculated => metadata.wordCount = Tokens(text)

\* what holds: whitespace at the beginning of the text counts as one more
\* word, and so does whitespace at its end
C26_WordCountIsPieces ==
  metadata.calculated =>
    metadata.wordCount =
      IF text = <<>> THEN 0
      ELSE Tokens(text)
             + (IF text[1] \in {" ", "\n", "\t"} THEN 1 ELSE 0)
             + (IF text[Len(text)] \in {" ", "\n", "\t"} THEN 1 ELSE 0)

C26_Witness ==
  /\ metadata.calculated
  /\ text = <<" ", "a">>
  /\ metadata.wordCount = 2

-----------------------------------------------------------------------------
(* Vocabulary of the streams *)

\* the kinds of event of a stream
IsFragment(e) == DOMAIN e = {"chunk", "done"} /\ ~e.done
IsClosing(e) ==
  DOMAIN e = {"chunk", "done", "fullResponse", "sourceDocuments"} /\ e.done
IsError(e) == DOMAIN e = {"error"}

RECURSIVE ConcatChunks(_)
\* the chunks of a sequence of fragment events, put together in order
ConcatChunks(es) ==
  IF es = <<>> THEN <<>> ELSE Head(es).chunk \o ConcatChunks(Tail(es))

\* the stream of handler r has written the head of its response
HeadSent(r) == requests[r].kind = "stream" /\ requests[r].res.status = 200

-----------------------------------------------------------------------------
(* C21 *)

C21_Events ==
  \A r \in Handlers :
    LET es == requests[r].events
        n == Len(es)
    IN /\ n > 0 => HeadSent(r)
       /\ \A k \in 1..(n - 1) : IsFragment(es[k]) /\ es[k].chunk # <<>>
       /\ n > 0 =>
            \/ IsFragment(es[n]) /\ es[n].chunk # <<>> /\ requests[r].pc = "streaming"
            \/ /\ IsClosing(es[n])
               /\ es[n].chunk = <<>>
               /\ es[n].fullResponse = ConcatChunks(SubSeq(es, 1, n - 1))
               /\ requests[r].pc = "done"
            \/ IsError(es[n]) /\ requests[r].pc = "done"
       /\ (HeadSent(r) /\ requests[r].pc = "done") =>
            n > 0 /\ (IsClosing(es[n]) \/ IsError(es[n]))

C21_NothingAfter ==
  \A r \in Handlers :
    requests[r].pc = "done" =>
      requests'[r].events = requests[r].events \/ requests'[r] = IdleRequest

C21_ErrorsEnd ==
  \A r \in Handlers :
    (StreamOpen(r, FALSE) \/ StreamEnd(r, FALSE)) =>
      LET es == requests'[r].events
      IN /\ requests'[r].pc = "done"
         /\ Len(es) = Len(requests[r].events) + 1
         /\ IsError(es[Len(es)])
         /\ \A k \in 1..Len(es) : ~IsClosing(es[k])

-----------------------------------------------------------------------------
(* Vocabulary of the failed generations *)

\* the chat of handler r is answered after its generation failed
GenerationFailed(r) ==
  requests[r].kind = "chat" /\ requests[r].pc = "done" /\ requests[r].thrown # {}

\* the open breaker rejected the call
FailedFast(msg) == "Circuit breaker is open" \in msg

\* the last attempt the call was allowed met an overload-class error
OverloadExhausted(msg) ==
  /\ "AI generation failed after" \in msg
  /\ "503 Service Unavailable" \in msg \/ "The model is overloaded" \in msg

\* the answer of lines 225-229
GenericFailure(res) ==
  /\ res.status = 500
  /\ res.error = "Failed to generate response. Please try again."
  /\ res.code = ""
  /\ res.retryAfter = 0

-----------------------------------------------------------------------------
(* C22 *)

\* C22: a chat whose generation failed because the breaker was open, or
\* because the retries of an overload-class error ran out, is answered 503
\* SERVICE_OVERLOADED with a retry-after hint, not with the generic failure.
C22_OverloadedCategory ==
  \A r \in Handlers :
    (GenerationFailed(r)
       /\ (FailedFast(requests[r].thrown) \/ OverloadExhausted(requests[r].thrown))) =>
      /\ requests[r].res.status = 503
      /\ requests[r].res.code = "SERVICE_OVERLOADED"
      /\ requests[r].res.retryAfter > 0

\* what holds: the category follows the word 'overloaded' in the message, so
\* the retries that ran out on 'The model is overloaded' get it and the
\* rejection by the open breaker gets the generic failure
C22_OverloadedByWording ==
  \A r \in Handlers :
    GenerationFailed(r) =>
      /\ ("The model is overloaded" \in requests[r].thrown) =>
           /\ requests[r].res.status = 503
           /\ requests[r].res.code = "SERVICE_OVERLOADED"
           /\ requests[r].res.retryAfter = 30
      /\ FailedFast(requests[r].thrown) => GenericFailure(requests[r].res)

C22_Witness ==
  \E r \in Handlers :
    /\ GenerationFailed(r)
    /\ FailedFast(requests[r].thrown)
    /\ requests[r].issued = 1
    /\ GenericFailure(requests[r].res)

-----------------------------------------------------------------------------
(* C23 *)

\* the call ended on an error that is not retried
CredentialsRejected(msg) == "Invalid Gemini API key" \in msg
QuotaExhausted(msg) == "Gemini API quota exceeded" \in msg

\* C23: a chat whose generation failed on invalid credentials, and one whose
\* generation failed on an exhausted quota, are each answered from the one
\* call of the client with a category of their own: QUOTA_EXCEEDED for the
\* quota, and for the credentials a category that is not the generic failure.
C23_DistinctCategories ==
  \A r \in Handlers :
    GenerationFailed(r) =>
      /\ requests[r].issued = 1
      /\ QuotaExhausted(requests[r].thrown) =>
           requests[r].res.status = 429 /\ requests[r].res.code = "QUOTA_EXCEEDED"
      /\ CredentialsRejected(requests[r].thrown) =>
           /\ ~GenericFailure(requests[r].res)
           /\ requests[r].res.code \notin {"", "QUOTA_EXCEEDED", "SERVICE_OVERLOADED"}

\* what holds: the quota has its category, the credentials get the generic
\* failure
C23_QuotaOnly ==
  \A r \in Handlers :
    GenerationFailed(r) =>
      /\ requests[r].issued = 1
      /\ QuotaExhausted(requests[r].thrown) =>
           requests[r].res.status = 429 /\ requests[r].res.code = "QUOTA_EXCEEDED"
      /\ CredentialsRejected(requests[r].thrown) => GenericFailure(requests[r].res)

C23_Witness ==
  \E r \in Handlers :
    /\ GenerationFailed(r)
    /\ CredentialsRejected(requests[r].thrown)
    /\ GenericFailure(requests[r].res)

-----------------------------------------------------------------------------
(* C24 *)

\* the success payload of the chat of handler r
SuccessPayload(r, res) ==
  /\ res.status = 200
  /\ res.error = "" /\ res.code = ""
  /\ Len(res.sourceDocuments) = Len(requests[r].docs)
  /\ \A k \in 1..Len(res.sourceDocuments) : res.sourceDocuments[k].id = requests[r].docs[k]

C24_FailureSwallowed ==
  \A r \in Handlers :
    /\ ChatSave(r, FALSE) =>
         /\ requests'[r].pc = "done"
         /\ SuccessPayload(r, requests'[r].res)
         /\ histories' = histories /\ documents' = documents
    /\ ChatUpdate(r, FALSE) =>
         /\ requests'[r].pc = "done"
         /\ SuccessPayload(r, requests'[r].res)
         /\ histories' = histories /\ documents' = documents
    /\ (requests[r].kind = "chat" /\ requests[r].pc \in {"saving", "updating"}) =>
         requests'[r].res = requests[r].res

C24_AfterGeneration ==
  /\ \A r \in Handlers :
       (requests[r].kind = "chat" /\ requests[r].pc \in {"saving", "updating"}) =>
         /\ requests[r].issued = 1
         /\ requests[r].thrown = {}
         /\ SuccessPayload(r, requests[r].res)
  /\ \A r \in Handlers :
       (requests[r].kind = "chat" /\ requests[r].thrown # {}) =>
         requests[r].pc = "done" /\ requests[r].res.status # 200

C24_HistoryStep ==
  /\ histories' # histories =>
       \E r \in Handlers :
         \/ requests[r].kind = "chat" /\ requests[r].pc = "saving"
         \/ requests[r].kind = "delete"
  /\ (\E k \in DOMAIN documents : documents'[k].stats.chats # documents[k].stats.chats) =>
       \E r \in Handlers : requests[r].kind = "chat" /\ requests[r].pc = "updating"

\* C24: once the generation of a chat has succeeded, a failure of the history
\* save or of the chat-counter updates leaves the answer as it was: the
\* caller gets the success payload; and the history is saved, and the
\* counters are updated, only by a chat whose generation has succeeded.
C24_HistoryBestEffort ==
  [](C24_AfterGeneration) /\ [][C24_FailureSwallowed /\ C24_HistoryStep]_vars

C24_Witness ==
  \E r \in Handlers :
    /\ requests[r].kind = "chat" /\ requests[r].pc = "done"
    /\ requests[r].res.status = 200
    /\ Len(requests[r].res.sourceDocuments) >= 1
    /\ Len(histories) = 1
    /\ \A k \in DOMAIN documents : documents[k].stats.chats = 0

-----------------------------------------------------------------------------
(* C25 *)

\* no Document is the caller's and, when the caller names ids, named
ResolvedEmpty(r) ==
  ~\E k \in DOMAIN documents :
     /\ documents[k].userId = requests[r].user
     /\ requests[r].ids = <<>> \/ \E j \in 1..Len(requests[r].ids) : requests[r].ids[j] = k

\* the chat or stream of handler r got the result of its find in this step
Resolves(r) ==
  /\ requests[r].kind \in {"chat", "stream"}
  /\ requests[r].pc = "finding"
  /\ requests'[r].pc # "finding"

C25_EmptySet ==
  \A r \in Handlers :
    Resolves(r) =>
      IF ResolvedEmpty(r)
      THEN /\ requests'[r].pc = "done"
           /\ requests'[r].res.status = 404
           /\ requests'[r].res.error = "No documents found. Please upload documents first."
           /\ requests'[r].issued = 0
           /\ requests'[r].events = <<>>
           /\ UNCHANGED <<circuitBreaker, calls, documents, histories, users>>
      ELSE /\ requests'[r].pc \in {"generating", "opening"}
           /\ requests'[r].issued = 1

C25_NothingAfter ==
  \A r \in Handlers :
    (requests[r].kind \in {"chat", "stream"} /\ requests[r].res.status = 404) =>
      /\ requests[r].pc = "done"
      /\ requests[r].issued = 0
      /\ requests[r].docs = <<>>

\* C25: when no document is resolved, chat and chatStream answer 404 'No
\* documents found. Please upload documents first.', make no generation
\* request, leave the circuit breaker as it is and write no chat history and
\* no document counter.
C25_NoDocuments == [][C25_EmptySet]_vars /\ [](C25_NothingAfter)

C25_Witness ==
  /\ Len(documents) >= 1
  /\ \E r \in Handlers :
       /\ requests[r].kind = "stream" /\ requests[r].pc = "done"
       /\ requests[r].ids # <<>>
       /\ requests[r].res.status = 404
       /\ requests[r].issued = 0

-----------------------------------------------------------------------------
(* C27 *)

\* the chat history saved in this step
SavedHistory == histories'[Len(histories')]
HistorySaved == Len(histories') > Len(histories)

\* C27: a document that deleteFile has soft-deleted is in no prompt built
\* afterwards by chat or chatStream, with documentIds or without, and is the
\* primary document of no chat history saved afterwards.
C27_DeletedStaysOut ==
  [][/\ \A r \in Handlers :
          Resolves(r) =>
            \A j \in 1..Len(requests'[r].docs) : documents[requests'[r].docs[j]].isActive
     /\ HistorySaved => documents[SavedHistory.documentId].isActive]_vars

\* what holds: the finds of chat and chatStream do not look at isActive; a
\* soft-deleted document the caller names is resolved like any other, and so
\* is one among the caller's most recent
C27_DeletedStillRead ==
  [][\A r \in Handlers :
       Resolves(r) =>
         LET req == requests[r]
             n == IF req.kind = "chat" THEN 5 ELSE 3
             mine == { k \in DOMAIN documents : documents[k].userId = req.user }
             named == { k \in mine : \E j \in 1..Len(req.ids) : req.ids[j] = k }
             recent == { k \in mine : Cardinality({ h \in mine : h > k }) < n }
             found == { requests'[r].docs[j] : j \in 1..Len(requests'[r].docs) }
         IN IF req.ids = <<>> THEN found = recent
            ELSE IF req.kind = "chat" THEN found = named
            ELSE found \subseteq named /\ Cardinality(found) = Min(3, Cardinality(named))]_vars

C27_Witness ==
  /\ Len(histories) = 1
  /\ histories[1].isActive
  /\ ~documents[histories[1].documentId].isActive
  /\ \E r \in Handlers :
       /\ requests[r].kind = "chat" /\ requests[r].pc = "done"
       /\ requests[r].res.status = 200
       /\ requests[r].ids = <<>>
       /\ \E k \in 1..Len(requests[r].prompt.sections) :
            ~documents[requests[r].docs[k]].isActive

-----------------------------------------------------------------------------
(* C28 *)

\* call c, past its entry check, ran in this step and did not return
RanWithoutReturn(c) ==
  /\ calls[c].pc \in {"inflight", "sleeping"}
  /\ calls'[c] # calls[c]
  /\ calls'[c].pc # "returned"

\* the breaker was closed, or its count was zeroed, in this step
BreakerReset ==
  \/ circuitBreaker.isOpen /\ ~circuitBreaker'.isOpen
  \/ circuitBreaker.failureCount > 0 /\ circuitBreaker'.failureCount = 0

\* C28: only a call that returns a result closes the breaker on the success
\* path: a call that ends by throwing, one whose response text is empty or
\* blank included, never sets isOpen to false and never zeroes failureCount
\* after its entry check.
C28_ThrowKeepsBreaker ==
  [][\A c \in Slots : RanWithoutReturn(c) => ~BreakerReset]_vars

\* what holds: the reset comes before the test of the text, so the call that
\* throws on an empty or blank response has reset the breaker; the calls
\* that throw on an error have not
C28_ResetBeforeEmptyCheck ==
  [][\A c \in Slots :
       RanWithoutReturn(c) =>
         IF calls'[c].pc = "thrown" /\ calls'[c].got.type = "text"
         THEN /\ calls'[c].result.msg = {"AI generation failed after", "Empty response from Gemini"}
              /\ circuitBreaker'.failureCount = 0
              /\ ~circuitBreaker'.isOpen
         ELSE ~BreakerReset]_vars

C28_Witness ==
  \E c \in Slots :
    /\ calls[c].pc = "thrown"
    /\ calls[c].got.type = "text"
    /\ calls[c].issued >= 2
    /\ circuitBreaker.failureCount = 0
    /\ circuitBreaker.lastFailureTime # NULL

-----------------------------------------------------------------------------
(* C29 *)

\* the stream of handler r ran in this step
StreamStep(r) ==
  /\ requests[r].kind = "stream" \/ requests'[r].kind = "stream"
  /\ requests'[r] # requests[r]

C29_BreakerUntouched ==
  \A r \in Handlers :
    StreamStep(r) =>
      /\ circuitBreaker' = circuitBreaker
      /\ (Resolves(r) /\ ~ResolvedEmpty(r)) =>
           requests'[r].pc = "opening" /\ requests'[r].issued = 1
      /\ (requests[r].pc = "opening" /\ requests'[r].pc = "done") =>
           /\ requests'[r].issued = 1
           /\ IsError(requests'[r].events[Len(requests'[r].events)])

C29_OneAttempt ==
  \A r \in Handlers :
    requests[r].kind = "stream" =>
      /\ requests[r].issued <= 1
      /\ HeadSent(r) <=> requests[r].issued = 1

\* C29: generateStreamWithGemini, and chatStream with it, neither reads nor
\* writes the circuit breaker: the request for the stream goes out also
\* while isOpen is true, there is one attempt and no retry, and failureCount,
\* isOpen and lastFailureTime are as before whether the stream succeeds or
\* fails.
C29_StreamIgnoresBreaker == [][C29_BreakerUntouched]_vars /\ [](C29_OneAttempt)

C29_Witness ==
  /\ circuitBreaker.isOpen
  /\ circuitBreaker.failureCount = 3
  /\ now - circuitBreaker.lastFailureTime < 60000
  /\ \E r \in Handlers :
       /\ requests[r].kind = "stream" /\ requests[r].pc = "done"
       /\ requests[r].issued = 1
       /\ requests[r].events = << [error |-> "AI streaming failed"] >>

-----------------------------------------------------------------------------
(* C30 *)

\* no upload and no delete is under way
Completed == \A r \in Handlers : requests[r].pc \in {"idle", "done"}

\* C30: whenever the uploads and deletes begun so far are completed, each
\* owner's stats.documentsUploaded is the number of that owner's active
\* documents, and it is never negative, however the requests interleave
\* (two deletes of one document included).
C30_CounterMatches ==
  \A u \in Owners :
    /\ users[u] >= 0
    /\ Completed => users[u] = ActiveCount(u)

\* what holds: the counter is right for an owner whose requests ran one at a
\* time
C30_CounterWhenSequential ==
  \A u \in Owners :
    ~overlapped[u] =>
      /\ users[u] >= 0
      /\ Completed => users[u] = ActiveCount(u)

C30_Witness ==
  /\ Completed
  /\ users["u1"] = -1
  /\ ActiveCount("u1") = 0
  /\ Len(documents) = 1
  /\ \E r \in Handlers :
       /\ requests[r].kind = "delete" /\ requests[r].pc = "done"
       /\ requests[r].id = 1
       /\ requests[r].res.status = 200

====
